---- MODULE Spec2Model ----
(***************************************************************************)
(* riotprompt: the filesystem Loader (src/loader.ts) and the provider      *)
(* execution adapters (src/execution/{openai,anthropic,gemini}.ts).        *)
(*                                                                         *)
(* Text is a sequence of atoms (an atom is a run of characters that the    *)
(* code never splits); Ws holds the atoms that String.prototype.trim       *)
(* removes.                                                                *)
(***************************************************************************)
EXTENDS Integers, Sequences, FiniteSets, TLC

VARIABLES ld, an, ge, oa, sc, pa, se, pm, mr, lg, mt, cr, pf, lp

vars == <<ld, an, ge, oa, sc, pa, se, pm, mr, lg, mt, cr, pf, lp>>


(***************************************************************************)
(* Bounds of the model.                                                    *)
(***************************************************************************)
MaxDirs == 2
MaxMsgs == 3
MaxSchemaDepth == 2
MaxLines == 3
MaxHeadingDepth == 3
MaxItems == 3

(***************************************************************************)
(* Strings.                                                                *)
(***************************************************************************)
Ws == {" ", "\n"}

RECURSIVE TrimStart(_)
TrimStart(s) ==
    IF s = <<>> THEN <<>>
    ELSE IF Head(s) \in Ws THEN TrimStart(Tail(s)) ELSE s

RECURSIVE TrimEnd(_)
TrimEnd(s) ==
    IF s = <<>> THEN <<>>
    ELSE IF s[Len(s)] \in Ws THEN TrimEnd(SubSeq(s, 1, Len(s) - 1)) ELSE s

Trim(s) == TrimEnd(TrimStart(s))

StartsWith(s, p) == Len(p) <= Len(s) /\ SubSeq(s, 1, Len(p)) = p

EndsWith(s, p) ==
    Len(p) <= Len(s) /\ SubSeq(s, Len(s) - Len(p) + 1, Len(s)) = p

Range(s) == {s[i] : i \in 1..Len(s)}

RECURSIVE SeqsUpTo(_, _)
SeqsUpTo(S, n) ==
    IF n = 0 THEN {<<>>}
    ELSE LET shorter == SeqsUpTo(S, n - 1)
         IN  shorter \cup {Append(q, x) : q \in shorter, x \in S}

(***************************************************************************)
(* path (node:path, POSIX).  A path is a sequence of segments, a segment   *)
(* is a string; "." is always an atom of its own, so ".." is <<".", ".">>.  *)
(***************************************************************************)
basename(p) == IF p = <<>> THEN <<>> ELSE p[Len(p)]

RECURSIVE normalize(_, _)
normalize(done, rest) ==
    IF rest = <<>> THEN done
    ELSE LET seg == Head(rest)
         IN  IF seg = <<".">> THEN normalize(done, Tail(rest))
             ELSE IF seg = <<".", ".">> /\ done # <<>> /\ done[Len(done)] # <<".", ".">>
                  THEN normalize(SubSeq(done, 1, Len(done) - 1), Tail(rest))
                  ELSE normalize(Append(done, seg), Tail(rest))

RECURSIVE pathString(_)
pathString(p) ==
    IF p = <<>> THEN <<".">>
    ELSE IF Len(p) = 1 THEN p[1]
    ELSE p[1] \o <<"/">> \o pathString(Tail(p))

\* path.join(dir, file) as the string the regexes are tested on
join(dir, file) == pathString(normalize(<<>>, Append(dir, file)))

(***************************************************************************)
(* File contents: a sequence of lines; hdr marks the lines that the header *)
(* regex /^(#{1,6})\s+(.+?)(?:\n|$)/m matches, text is the captured text of *)
(* such a line and the whole line otherwise.  JavaScript's null and '' are *)
(* both falsy and the Loader only ever tests the header for truthiness, so *)
(* <<>> stands for both.                                                   *)
(***************************************************************************)
RECURSIVE firstHeaderIndex(_, _)
firstHeaderIndex(c, i) ==
    IF i > Len(c) THEN 0
    ELSE IF c[i].hdr THEN i ELSE firstHeaderIndex(c, i + 1)

extractFirstHeader(c) ==
    LET i == firstHeaderIndex(c, 1)
    IN  IF i # 0 /\ c[i].text # <<>> THEN Trim(c[i].text) ELSE <<>>

\* a line that String.prototype.trim removes altogether
isBlank(line) == ~line.hdr /\ Trim(line.text) = <<>>

RECURSIVE dropLeadingBlank(_)
dropLeadingBlank(c) ==
    IF c # <<>> /\ isBlank(Head(c)) THEN dropLeadingBlank(Tail(c)) ELSE c

RECURSIVE dropTrailingBlank(_)
dropTrailingBlank(c) ==
    IF c # <<>> /\ isBlank(c[Len(c)])
    THEN dropTrailingBlank(SubSeq(c, 1, Len(c) - 1)) ELSE c

\* String.prototype.trim on a text of several lines
trimContent(c) ==
    LET kept == dropTrailingBlank(dropLeadingBlank(c))
        n == Len(kept)
    IN  [i \in 1..n |->
            LET line == kept[i]
                front == IF i = 1 /\ ~line.hdr THEN TrimStart(line.text) ELSE line.text
            IN  [line EXCEPT !.text = IF i = n THEN TrimEnd(front) ELSE front]]

\* a removeFirstHeader without the trailing trim()
removeFirstHeaderUntrimmed(c) ==
    LET i == firstHeaderIndex(c, 1)
    IN  IF i # 0 THEN SubSeq(c, 1, i - 1) \o SubSeq(c, i + 1, Len(c)) ELSE c

removeFirstHeader(c) ==
    LET i == firstHeaderIndex(c, 1)
    IN  IF i # 0 THEN trimContent(SubSeq(c, 1, i - 1) \o SubSeq(c, i + 1, Len(c)))
        ELSE c

(***************************************************************************)
(* Sections (riotprompt createSection / Section.add).                      *)
(***************************************************************************)
\* Parameters: a function from keys to values; {...a, ...b} is b @@ a
NoParameters == [key \in {} |-> ""]

\* createSection({ ...sectionOptions, title })
createSection(options) ==
    [kind |-> "section", title |-> options.title,
     parameters |-> options.parameters, items |-> <<>>]

\* the item that section.add(text, { ...sectionOptions }) makes of a string
textItem(c, options) == [kind |-> "text", text |-> c, parameters |-> options.parameters]

withTitle(sectionOptions, title) ==
    [title |-> title, parameters |-> sectionOptions.parameters]

add(section, item) == [section EXCEPT !.items = Append(@, item)]

(***************************************************************************)
(* SafeRegex (@utilarium/pressurelid), as the Loader uses it.  An ignore   *)
(* pattern carries the library's verdicts: create is what                  *)
(* safeRegex.create(pattern, 'i') answers, glob what                       *)
(* safeRegex.globToRegex(pattern) answers, rx and gx the compiled regexes. *)
(* A compiled regex is the text it looks for and where it is anchored.     *)
(***************************************************************************)
NoRegex == [anchor |-> "never", lit |-> <<>>]

\* "^\\..*": hidden files
PatDot == [src |-> "^\\..*", create |-> "safe", glob |-> "unused",
           rx |-> [anchor |-> "start", lit |-> <<".">>], gx |-> NoRegex]

\* "\\.(zip|tar|gz|rar|7z)$"
PatZip == [src |-> "\\.(zip|tar|gz|rar|7z)$", create |-> "safe", glob |-> "unused",
           rx |-> [anchor |-> "end", lit |-> <<".", "zip">>], gx |-> NoRegex]

\* "*.tmp": no valid regular expression, a valid glob
PatGlob == [src |-> "*.tmp", create |-> "invalid", glob |-> "safe",
            rx |-> NoRegex, gx |-> [anchor |-> "end", lit |-> <<".", "tmp">>]]

\* "(a+)+": nested quantifiers, blocked by create; the glob translator
\* either takes it as a literal file name or rejects it as well
PatNestedLiteral == [src |-> "(a+)+", create |-> "blocked", glob |-> "safe",
                     rx |-> NoRegex, gx |-> [anchor |-> "both", lit |-> <<"(a+)+">>]]

\* "\\.md$": matches context.md as well
PatMd == [src |-> "\\.md$", create |-> "safe", glob |-> "unused",
          rx |-> [anchor |-> "end", lit |-> <<".", "md">>], gx |-> NoRegex]

PatNestedRejected == [src |-> "(a+)+", create |-> "blocked", glob |-> "unsafe",
                      rx |-> NoRegex, gx |-> NoRegex]

\* RegExp.prototype.test
test(regex, s) ==
    CASE regex.anchor = "start" -> StartsWith(s, regex.lit)
      [] regex.anchor = "end" -> EndsWith(s, regex.lit)
      [] regex.anchor = "both" -> s = regex.lit
      [] OTHER -> FALSE

SafeRegexCreate(pattern) ==
    [safe |-> pattern.create = "safe", regex |-> pattern.rx,
     blocked |-> pattern.create = "blocked"]

SafeRegexGlobToRegex(pattern) ==
    [safe |-> pattern.glob = "safe", regex |-> pattern.gx]

\* a compile step that answers a match-everything regex where the code
\* answers null
compilePatternMatchAll(pattern) ==
    LET result == SafeRegexCreate(pattern)
        globResult == SafeRegexGlobToRegex(pattern)
    IN  IF result.safe THEN <<result.regex>>
        ELSE IF globResult.safe THEN <<globResult.regex>>
        ELSE <<[anchor |-> "start", lit |-> <<>>]>>

\* patterns.map(...) for one pattern: <<regex>>, or <<>> for the null that
\* the trailing filter drops
compilePattern(pattern) ==
    LET result == SafeRegexCreate(pattern)
        globResult == SafeRegexGlobToRegex(pattern)
    IN  IF result.safe THEN <<result.regex>>
        ELSE IF globResult.safe THEN <<globResult.regex>>
        ELSE <<>>

\* the warnings one pattern logs: onBlock, then the loader's own
patternWarnings(pattern) ==
    (IF SafeRegexCreate(pattern).blocked
        THEN <<[kind |-> "blocked", src |-> pattern.src]>> ELSE <<>>)
    \o (IF compilePattern(pattern) = <<>>
        THEN <<[kind |-> "invalid", src |-> pattern.src]>> ELSE <<>>)

RECURSIVE createSafeIgnorePatterns(_)
createSafeIgnorePatterns(patterns) ==
    IF patterns = <<>> THEN <<>>
    ELSE compilePattern(Head(patterns)) \o createSafeIgnorePatterns(Tail(patterns))

RECURSIVE ignoreWarnings(_)
ignoreWarnings(patterns) ==
    IF patterns = <<>> THEN <<>>
    ELSE patternWarnings(Head(patterns)) \o ignoreWarnings(Tail(patterns))

\* a filter callback with every() in the place of some()
keepFileUnlessAllMatch(regexes, contextDir, file) ==
    LET fullPath == join(contextDir, file)
    IN  ~ \A i \in 1..Len(regexes) :
            test(regexes[i], file) \/ test(regexes[i], fullPath)

\* the filter callback of files.filter(...)
keepFile(regexes, contextDir, file) ==
    LET fullPath == join(contextDir, file)
    IN  ~ \E i \in 1..Len(regexes) :
            test(regexes[i], file) \/ test(regexes[i], fullPath)

(***************************************************************************)
(* The file system the Loader reads (./util/storage).  A directory is its  *)
(* path, its listing in enumeration order, and the storage call that       *)
(* throws for it (fail), if any.                                           *)
(***************************************************************************)
ContextMd == <<"context", ".", "md">>

Plain == <<[hdr |-> FALSE, text |-> <<"body">>]>>

Headed == <<[hdr |-> TRUE, text |-> <<"Title">>], [hdr |-> FALSE, text |-> <<"body">>]>>

\* a header that is not the first line
Late == <<[hdr |-> FALSE, text |-> <<"intro">>], [hdr |-> TRUE, text |-> <<"Title">>],
          [hdr |-> FALSE, text |-> <<"body">>]>>

\* white space after the header text, around the body and at the end
Padded == <<[hdr |-> TRUE, text |-> <<"Title", " ">>], [hdr |-> FALSE, text |-> <<>>],
            [hdr |-> FALSE, text |-> <<" ", "body", " ">>], [hdr |-> FALSE, text |-> <<>>]>>

\* "#  ": the regex matches and captures a blank
BlankHeader == <<[hdr |-> TRUE, text |-> <<" ">>], [hdr |-> FALSE, text |-> <<"body">>]>>

FileA == [name |-> <<"a", ".", "md">>, isFile |-> TRUE, content |-> Headed]
FileN == [name |-> <<"n", ".", "txt">>, isFile |-> TRUE, content |-> Plain]
FileHidden == [name |-> <<".", "git">>, isFile |-> TRUE, content |-> Plain]
FileZip == [name |-> <<"b", ".", "zip">>, isFile |-> TRUE, content |-> Plain]
FileTmp == [name |-> <<"c", ".", "tmp">>, isFile |-> TRUE, content |-> Plain]
FileNested == [name |-> <<"(a+)+">>, isFile |-> TRUE, content |-> Plain]
FileContext == [name |-> ContextMd, isFile |-> TRUE, content |-> Headed]
SubDir == [name |-> <<"sub">>, isFile |-> FALSE, content |-> <<>>]
FileLate == [name |-> <<"l", ".", "md">>, isFile |-> TRUE, content |-> Late]
FilePadded == [name |-> <<"p", ".", "md">>, isFile |-> TRUE, content |-> Padded]
FileBlank == [name |-> <<"h", ".", "md">>, isFile |-> TRUE, content |-> BlankHeader]
FileTxtHeaded == [name |-> <<"t", ".", "txt">>, isFile |-> TRUE, content |-> Headed]
FilePlainMd == [name |-> <<"q", ".", "md">>, isFile |-> TRUE, content |-> Plain]
FileContextPlain == [name |-> ContextMd, isFile |-> TRUE, content |-> Plain]
FileContextPadded == [name |-> ContextMd, isFile |-> TRUE, content |-> Padded]
\* a subdirectory whose name ends in .md
SubDirMd == [name |-> <<"d", ".", "md">>, isFile |-> FALSE, content |-> Headed]

Listings ==
    { <<FileA, FileHidden>>,
      <<FileContext, SubDir, FileTmp, FileN>>,
      <<FileZip, FileNested, FileA>> }

\* listings for the shapes of file and of context.md, and the ones in which
\* every entry but context.md is ignored by the default patterns
FileShapeListings ==
    { <<FileLate, FilePadded, FileBlank, FileTxtHeaded, FilePlainMd>>,
      <<FileHidden, FileContext, FileZip>>,
      <<FileZip, FileHidden>>,
      <<FileN, FileContextPlain, SubDirMd, FileA>>,
      <<FileContextPadded, FileLate>> }

Paths == { <<<<"ctx">>>>, <<<<".", ".">>, <<"ctx">>>>, <<<<".">>, <<"lib">>>> }

FailPoints == {"exists", "readContext", "listFiles", "isFile", "readFile"}

Directories ==
    [path : Paths, entries : Listings, fail : {"none"}]
    \cup [path : {<<<<"ctx">>>>}, entries : {<<FileContext, SubDir, FileTmp, FileN>>},
          fail : FailPoints]
    \cup [path : {<<<<"ctx">>>>}, entries : {<<FileA, FileHidden>>},
          fail : {"readContext"}]
    \cup [path : {<<<<"ctx">>>>}, entries : FileShapeListings, fail : {"none"}]

DEFAULT_IGNORE_PATTERNS == <<PatDot, PatZip>>

IgnorePatternLists ==
    { DEFAULT_IGNORE_PATTERNS,
      <<>>,
      <<PatGlob>>,
      <<PatNestedRejected, PatDot>>,
      <<PatZip, PatNestedLiteral>>,
      <<PatGlob, PatNestedRejected, PatZip>>,
      <<PatMd, PatDot, PatZip>> }

(***************************************************************************)
(* Loader.load, one directory (the body of the try block).                 *)
(***************************************************************************)
hasContextFile(dir) ==
    \E i \in 1..Len(dir.entries) : dir.entries[i].name = ContextMd

contextContent(dir) ==
    LET i == CHOOSE i \in 1..Len(dir.entries) : dir.entries[i].name = ContextMd
    IN  dir.entries[i].content

\* the context.md branch
mainSection(dir, sectionOptions) ==
    LET dirName == basename(dir.path)
    IN  IF hasContextFile(dir)
        THEN LET mainContextContent == contextContent(dir)
                 firstHeader == extractFirstHeader(mainContextContent)
                 sectionTitle == IF firstHeader # <<>> THEN firstHeader ELSE dirName
             IN  add(createSection(withTitle(sectionOptions, sectionTitle)),
                     textItem(IF firstHeader # <<>>
                              THEN removeFirstHeader(mainContextContent)
                              ELSE mainContextContent, sectionOptions))
        ELSE createSection(withTitle(sectionOptions, dirName))

\* one surviving regular file as a sub-Section
fileSectionOf(file, sectionOptions) ==
    LET fileHeader == IF EndsWith(file.name, <<".", "md">>)
                      THEN extractFirstHeader(file.content) ELSE <<>>
        sectionName == IF fileHeader # <<>> THEN fileHeader ELSE file.name
        contentToAdd == IF fileHeader # <<>>
                        THEN removeFirstHeader(file.content) ELSE file.content
    IN  add(createSection(withTitle(sectionOptions, sectionName)),
            textItem(contentToAdd, sectionOptions))

\* one call of the storage utility
storageCall(op, dir, file) == [op |-> op, path |-> join(dir.path, file)]

\* a loop that does not skip context.md
RECURSIVE addFilesWithContext(_, _, _, _)
addFilesWithContext(dir, files, acc, sectionOptions) ==
    IF files = <<>> THEN [threw |-> FALSE] @@ acc
    ELSE LET file == Head(files)
             asked == [acc EXCEPT !.calls = Append(@, storageCall("isFile", dir, file.name))]
             read == [asked EXCEPT !.calls = Append(@, storageCall("readFile", dir, file.name))]
         IN  IF dir.fail = "isFile" THEN [threw |-> TRUE] @@ asked
             ELSE IF ~file.isFile
             THEN addFilesWithContext(dir, Tail(files), asked, sectionOptions)
             ELSE IF dir.fail = "readFile" THEN [threw |-> TRUE] @@ read
             ELSE addFilesWithContext(dir, Tail(files),
                     [read EXCEPT !.section = add(@, fileSectionOf(file, sectionOptions))],
                     sectionOptions)

\* a loop without the isFile test
RECURSIVE addFilesEveryEntry(_, _, _, _)
addFilesEveryEntry(dir, files, acc, sectionOptions) ==
    IF files = <<>> THEN [threw |-> FALSE] @@ acc
    ELSE LET file == Head(files)
             read == [acc EXCEPT !.calls = Append(@, storageCall("readFile", dir, file.name))]
         IN  IF file.name = ContextMd
             THEN addFilesEveryEntry(dir, Tail(files), acc, sectionOptions)
             ELSE IF dir.fail = "readFile" THEN [threw |-> TRUE] @@ read
             ELSE addFilesEveryEntry(dir, Tail(files),
                     [read EXCEPT !.section = add(@, fileSectionOf(file, sectionOptions))],
                     sectionOptions)

\* the loop over filteredFiles, from the Section and the storage calls so
\* far (acc); threw when isFile or readFile throws
RECURSIVE addFiles(_, _, _, _)
addFiles(dir, files, acc, sectionOptions) ==
    IF files = <<>> THEN [threw |-> FALSE] @@ acc
    ELSE LET file == Head(files)
             asked == [acc EXCEPT !.calls = Append(@, storageCall("isFile", dir, file.name))]
             read == [asked EXCEPT !.calls = Append(@, storageCall("readFile", dir, file.name))]
         IN  IF file.name = ContextMd
             THEN addFiles(dir, Tail(files), acc, sectionOptions)
             ELSE IF dir.fail = "isFile" THEN [threw |-> TRUE] @@ asked
             ELSE IF ~file.isFile
             THEN addFiles(dir, Tail(files), asked, sectionOptions)
             ELSE IF dir.fail = "readFile" THEN [threw |-> TRUE] @@ read
             ELSE addFiles(dir, Tail(files),
                     [read EXCEPT !.section = add(@, fileSectionOf(file, sectionOptions))],
                     sectionOptions)

filteredFiles(dir, patterns) ==
    LET ignorePatternsRegex == createSafeIgnorePatterns(patterns)
    IN  SelectSeq(dir.entries,
                  LAMBDA file : keepFile(ignorePatternsRegex, dir.path, file.name))

\* what the try block does for one directory: whether it threw, the Section
\* it built, the storage calls it made and the warnings it logged on the way
processDirectory(dir, patterns, sectionOptions) ==
    LET none == createSection(withTitle(sectionOptions, <<>>))
        exists == <<storageCall("exists", dir, ContextMd)>>
        context == IF hasContextFile(dir)
                   THEN Append(exists, storageCall("readFile", dir, ContextMd))
                   ELSE exists
        listed == Append(context, [op |-> "listFiles", path |-> pathString(dir.path)])
    IN  IF dir.fail = "exists"
        THEN [threw |-> TRUE, section |-> none, calls |-> exists, warns |-> <<>>]
        ELSE IF hasContextFile(dir) /\ dir.fail = "readContext"
        THEN [threw |-> TRUE, section |-> none, calls |-> context, warns |-> <<>>]
        ELSE IF dir.fail = "listFiles"
        THEN [threw |-> TRUE, section |-> none, calls |-> listed, warns |-> <<>>]
        ELSE addFiles(dir, filteredFiles(dir, patterns),
                      [section |-> mainSection(dir, sectionOptions), calls |-> listed],
                      sectionOptions)
             @@ [warns |-> ignoreWarnings(patterns)]

\* a loop body without the catch: the first failing directory rejects load
loadStepFailFast(l, dir) ==
    LET r == processDirectory(dir, l.ignorePatterns, l.sectionOptions)
    IN  IF r.threw
        THEN [l EXCEPT !.pc = "rejected", !.warns = @ \o r.warns, !.storageCalls = @ \o r.calls]
        ELSE [l EXCEPT !.idx = @ + 1, !.warns = @ \o r.warns, !.storageCalls = @ \o r.calls,
                       !.contextSections = Append(@, r.section)]

\* a loop body that puts each new Section first
loadStepUnshift(l, dir) ==
    LET r == processDirectory(dir, l.ignorePatterns, l.sectionOptions)
    IN  IF r.threw
        THEN [l EXCEPT !.idx = @ + 1, !.warns = @ \o r.warns, !.storageCalls = @ \o r.calls,
                       !.errors = Append(@, basename(dir.path))]
        ELSE [l EXCEPT !.idx = @ + 1, !.warns = @ \o r.warns, !.storageCalls = @ \o r.calls,
                       !.contextSections = <<r.section>> \o @]

\* the loop body with its catch: push the Section, or log one error
loadStep(l, dir) ==
    LET r == processDirectory(dir, l.ignorePatterns, l.sectionOptions)
    IN  IF r.threw
        THEN [l EXCEPT !.idx = @ + 1, !.warns = @ \o r.warns, !.storageCalls = @ \o r.calls,
                       !.errors = Append(@, basename(dir.path))]
        ELSE [l EXCEPT !.idx = @ + 1, !.warns = @ \o r.warns, !.storageCalls = @ \o r.calls,
                       !.contextSections = Append(@, r.section)]

(***************************************************************************)
(* Loader: create, then load.                                              *)
(***************************************************************************)
\* the parameters a Loader is created with, and those a load() call passes
LoaderParameters == {NoParameters, [name |-> "loader", env |-> "loader"]}

CallParameters == {NoParameters, [name |-> "call", extra |-> "call"]}

\* a loadOptions that lets the Loader's parameters win
loadOptionsLoaderFirst(parameters, sectionOptions) ==
    [parameters |-> parameters @@ sectionOptions.parameters]

\* { ...currentOptions, parameters: { ...parameters, ...currentOptions.parameters } }
loadOptions(parameters, sectionOptions) ==
    [parameters |-> sectionOptions.parameters @@ parameters]

\* a load() that compiles the ignore patterns before it looks at the list
newCallCompilesFirst(patterns, sectionOptions, dirs) ==
    [pc |-> IF dirs = <<>> THEN "done" ELSE "loop",
     ignorePatterns |-> patterns, sectionOptions |-> sectionOptions,
     contextDirectories |-> dirs, idx |-> 1, contextSections |-> <<>>,
     errors |-> <<>>, warns |-> ignoreWarnings(patterns), storageCalls |-> <<>>,
     result |-> <<>>]

\* the locals of one load() call; with no directory it returns at once
newCall(patterns, sectionOptions, dirs) ==
    [pc |-> IF dirs = <<>> THEN "done" ELSE "loop",
     ignorePatterns |-> patterns, sectionOptions |-> sectionOptions,
     contextDirectories |-> dirs, idx |-> 1, contextSections |-> <<>>,
     errors |-> <<>>, warns |-> <<>>, storageCalls |-> <<>>, result |-> <<>>]

LoaderIdle(patterns, parameters) ==
    [newCall(patterns, [parameters |-> parameters], <<>>) EXCEPT !.pc = "idle"]
    @@ [parameters |-> parameters, options |-> [parameters |-> NoParameters]]

\* the inputs of load(): more than one directory only with the two kinds
\* of parameters that show every case of the merge
LoadInputs ==
    [dirs : SeqsUpTo(Directories, MaxDirs), parameters : {NoParameters}]
    \cup [dirs : SeqsUpTo(Directories, 1), parameters : CallParameters]

LoadCall ==
    /\ ld.pc = "idle"
    /\ \E in \in LoadInputs :
          ld' = newCall(ld.ignorePatterns,
                        loadOptions(ld.parameters, [parameters |-> in.parameters]),
                        in.dirs)
                @@ [parameters |-> ld.parameters,
                    options |-> [parameters |-> in.parameters]]
    /\ UNCHANGED <<an, ge, oa, sc, pa, se, pm, mr, lg, mt, cr, pf, lp>>

LoadDirectory ==
    /\ ld.pc = "loop"
    /\ ld.idx <= Len(ld.contextDirectories)
    /\ ld' = loadStep(ld, ld.contextDirectories[ld.idx])
    /\ UNCHANGED <<an, ge, oa, sc, pa, se, pm, mr, lg, mt, cr, pf, lp>>

LoadReturn ==
    /\ ld.pc = "loop"
    /\ ld.idx > Len(ld.contextDirectories)
    /\ ld' = [ld EXCEPT !.pc = "done", !.result = ld.contextSections]
    /\ UNCHANGED <<an, ge, oa, sc, pa, se, pm, mr, lg, mt, cr, pf, lp>>

\* the promise is settled and its locals are gone; the Loader is as created
LoadSettled ==
    /\ ld.pc = "done"
    /\ ld' = LoaderIdle(ld.ignorePatterns, ld.parameters)
    /\ UNCHANGED <<an, ge, oa, sc, pa, se, pm, mr, lg, mt, cr, pf, lp>>

Idle == [pc |-> "idle"]

\* the components that a specification does not exercise stay as constructed
RestIdle ==
    /\ pm = Idle /\ mr = Idle /\ lg = Idle /\ mt = Idle
    /\ cr = Idle /\ pf = Idle /\ lp = Idle

CoreIdle ==
    /\ ld = Idle /\ an = Idle /\ ge = Idle /\ oa = Idle
    /\ sc = Idle /\ pa = Idle /\ se = Idle

InitLoader ==
    /\ ld \in {LoaderIdle(p, NoParameters) : p \in IgnorePatternLists}
             \cup {LoaderIdle(DEFAULT_IGNORE_PATTERNS, q) : q \in LoaderParameters}
    /\ an = Idle /\ ge = Idle /\ oa = Idle /\ sc = Idle
    /\ pa = Idle /\ se = Idle /\ RestIdle

NextLoader == LoadCall \/ LoadDirectory \/ LoadReturn \/ LoadSettled

SpecLoader == InitLoader /\ [][NextLoader]_vars

(***************************************************************************)
(* Two load() calls in flight.  A call runs to its next await (one storage *)
(* call) and is resumed with the answer; between two awaits the other call *)
(* may run.  ld is here the Loaders, the locals of the two calls and the   *)
(* lines written to the logger that the Loaders share by default.          *)
(***************************************************************************)
Callers == {1, 2}

ConcurrentDirectories ==
    { [path |-> <<<<"ctx">>>>, entries |-> <<FileContext, SubDir, FileTmp, FileN>>,
       fail |-> "none"],
      [path |-> <<<<"lib">>>>, entries |-> <<FileA, FileHidden>>, fail |-> "readFile"] }

ConcurrentLoaders ==
    << [ignorePatterns |-> DEFAULT_IGNORE_PATTERNS,
        parameters |-> [name |-> "loader", env |-> "loader"]],
       [ignorePatterns |-> <<PatGlob, PatNestedRejected, PatZip>>,
        parameters |-> NoParameters] >>

\* the locals of a call: those of load() and, inside the try block, the
\* Section being built and the files still to visit
startLoad(loader, options, dirs) ==
    [newCall(loader.ignorePatterns, loadOptions(loader.parameters, options), dirs)
        EXCEPT !.pc = IF dirs = <<>> THEN "done" ELSE "exists"]
    @@ [main |-> createSection(withTitle(options, <<>>)), files |-> <<>>]

\* a push onto one array that every call of the Loader uses
pushSectionShared(calls, c) ==
    [d \in DOMAIN calls |->
        [calls[d] EXCEPT !.contextSections = Append(@, calls[c].main)]]

\* contextSections.push(mainContextSection) of call c
pushSection(calls, c) ==
    [calls EXCEPT ![c].contextSections = Append(@, calls[c].main)]

\* the end of one iteration of the loop over the directories: the next
\* directory's first await, or the return
nextDirectory(call) ==
    IF call.idx + 1 > Len(call.contextDirectories)
    THEN [call EXCEPT !.idx = @ + 1, !.pc = "done", !.result = call.contextSections]
    ELSE [call EXCEPT !.idx = @ + 1, !.pc = "exists"]

\* the loop over filteredFiles up to its next await
RECURSIVE fileLoop(_)
fileLoop(call) ==
    IF call.files = <<>> THEN [call EXCEPT !.pc = "push"]
    ELSE IF Head(call.files).name = ContextMd
         THEN fileLoop([call EXCEPT !.files = Tail(@)])
         ELSE [call EXCEPT !.pc = "isFile"]

\* the catch block
caught(call) ==
    [call EXCEPT !.pc = "caught",
                 !.errors = Append(@, basename(call.contextDirectories[call.idx].path))]

\* call c from the await it is suspended at to the next one
stepCall(call) ==
    LET dir == call.contextDirectories[call.idx]
        sectionOptions == call.sectionOptions
        made(op, name) == [call EXCEPT !.storageCalls = Append(@, storageCall(op, dir, name))]
    IN  CASE call.pc = "exists" ->
               IF dir.fail = "exists" THEN caught(made("exists", ContextMd))
               ELSE IF hasContextFile(dir)
               THEN [made("exists", ContextMd) EXCEPT !.pc = "readContext"]
               ELSE [made("exists", ContextMd) EXCEPT
                        !.pc = "listFiles",
                        !.main = createSection(withTitle(sectionOptions, basename(dir.path)))]
          [] call.pc = "readContext" ->
               IF dir.fail = "readContext" THEN caught(made("readFile", ContextMd))
               ELSE [made("readFile", ContextMd) EXCEPT
                        !.pc = "listFiles", !.main = mainSection(dir, sectionOptions)]
          [] call.pc = "listFiles" ->
               LET listed == [call EXCEPT !.storageCalls =
                                 Append(@, [op |-> "listFiles", path |-> pathString(dir.path)])]
               IN  IF dir.fail = "listFiles" THEN caught(listed)
                   ELSE fileLoop([listed EXCEPT
                                     !.warns = @ \o ignoreWarnings(call.ignorePatterns),
                                     !.files = filteredFiles(dir, call.ignorePatterns)])
          [] call.pc = "isFile" ->
               LET file == Head(call.files)
               IN  IF dir.fail = "isFile" THEN caught(made("isFile", file.name))
                   ELSE IF file.isFile
                   THEN [made("isFile", file.name) EXCEPT !.pc = "readFile"]
                   ELSE fileLoop([made("isFile", file.name) EXCEPT !.files = Tail(@)])
          [] call.pc = "readFile" ->
               LET file == Head(call.files)
               IN  IF dir.fail = "readFile" THEN caught(made("readFile", file.name))
                   ELSE fileLoop([made("readFile", file.name) EXCEPT
                                     !.files = Tail(@),
                                     !.main = add(@, fileSectionOf(file, sectionOptions))])

\* the lines a step adds to the shared logger
logged(before, after) ==
    [k \in 1..(Len(after.warns) - Len(before.warns)) |->
        [level |-> "warn", line |-> after.warns[Len(before.warns) + k].src]]
    \o [k \in 1..(Len(after.errors) - Len(before.errors)) |->
          [level |-> "error", line |-> after.errors[Len(before.errors) + k]]]

\* resume call c: run it to its next await, through the push or the catch
\* that ends a directory
resume(l, c) ==
    LET stepped == stepCall(l.calls[c])
        calls == [l.calls EXCEPT ![c] = stepped]
        pushed == IF stepped.pc = "push" THEN pushSection(calls, c) ELSE calls
        after == IF stepped.pc \in {"push", "caught"}
                 THEN [pushed EXCEPT ![c] = nextDirectory(@)]
                 ELSE pushed
    IN  [l EXCEPT !.calls = after, !.log = @ \o logged(l.calls[c], stepped)]

ConcurrentInputs ==
    [loader : DOMAIN ConcurrentLoaders, parameters : CallParameters,
     dirs : SeqsUpTo(ConcurrentDirectories, MaxDirs)]

ConcurrentLoadCall(c) ==
    /\ ld.calls[c].pc = "idle"
    /\ \E in \in ConcurrentInputs :
          ld' = [ld EXCEPT !.calls[c] =
                    startLoad(ld.loaders[in.loader], [parameters |-> in.parameters], in.dirs)
                    @@ [loader |-> in.loader, options |-> [parameters |-> in.parameters]]]
    /\ UNCHANGED <<an, ge, oa, sc, pa, se, pm, mr, lg, mt, cr, pf, lp>>

ConcurrentResume(c) ==
    /\ ld.calls[c].pc \notin {"idle", "done"}
    /\ ld' = resume(ld, c)
    /\ UNCHANGED <<an, ge, oa, sc, pa, se, pm, mr, lg, mt, cr, pf, lp>>

InitConcurrent ==
    /\ ld = [loaders |-> ConcurrentLoaders,
             calls |-> [c \in Callers |-> Idle],
             log |-> <<>>]
    /\ an = Idle /\ ge = Idle /\ oa = Idle /\ sc = Idle
    /\ pa = Idle /\ se = Idle /\ RestIdle

NextConcurrent == \E c \in Callers : ConcurrentLoadCall(c) \/ ConcurrentResume(c)

SpecConcurrent == InitConcurrent /\ [][NextConcurrent]_vars

(***************************************************************************)
(* JSON Schema objects (request.responseFormat.json_schema.schema).  An    *)
(* object is a function from its keys; the value of `type` is a string     *)
(* (TypeStr) or an array of strings (TypeArr), `properties` maps property  *)
(* names to schemas, `items` is a schema.  JsonNull is a null where a      *)
(* schema is expected, JsonUndefined what mapSchema answers for it.        *)
(***************************************************************************)
TypeStr(name) == [kind |-> "string", v |-> <<name>>]

TypeArr(names) == [kind |-> "array", v |-> names]

JsonNull == [null |-> TRUE]

JsonUndefined == [undefined |-> TRUE]

IsFalsy(s) == DOMAIN s = {"null"}

Restrict(f, keys) == [k \in keys |-> f[k]]

\* String.prototype.toUpperCase on the type names
toUpperCase(name) ==
    CASE name = "object" -> "OBJECT"
      [] name = "string" -> "STRING"
      [] name = "array" -> "ARRAY"
      [] name = "number" -> "NUMBER"
      [] name = "null" -> "NULL"
      [] OTHER -> name

\* the conditional at `if (newSchema.type)`
upperType(t) ==
    IF t.kind = "string" THEN TypeStr(toUpperCase(t.v[1])) ELSE t

\* a mapSchema that leaves `$schema` in place
RECURSIVE mapSchemaKeepsDollarSchema(_)
mapSchemaKeepsDollarSchema(s) ==
    IF IsFalsy(s) THEN JsonUndefined
    ELSE LET newSchema ==
                 [k \in DOMAIN s |->
                    CASE k = "type" -> upperType(s[k])
                      [] k = "properties" ->
                            [key \in DOMAIN s[k] |-> mapSchemaKeepsDollarSchema(s[k][key])]
                      [] k = "items" ->
                            IF IsFalsy(s[k]) THEN s[k] ELSE mapSchemaKeepsDollarSchema(s[k])
                      [] OTHER -> s[k]]
         IN  Restrict(newSchema, DOMAIN s \ {"additionalProperties"})

RECURSIVE mapSchema(_)
mapSchema(s) ==
    IF IsFalsy(s) THEN JsonUndefined
    ELSE LET newSchema ==
                 [k \in DOMAIN s |->
                    CASE k = "type" -> upperType(s[k])
                      [] k = "properties" ->
                            [key \in DOMAIN s[k] |-> mapSchema(s[k][key])]
                      [] k = "items" ->
                            IF IsFalsy(s[k]) THEN s[k] ELSE mapSchema(s[k])
                      [] OTHER -> s[k]]
         IN  Restrict(newSchema, DOMAIN s \ {"additionalProperties", "$schema"})

(***************************************************************************)
(* The same transform on objects with identity. The heap is the sequence   *)
(* of the objects allocated so far; a slot of an object holds a value or   *)
(* the address of another object. `{ ...s }` allocates a new object whose  *)
(* slots are those of s, so the objects under properties and items are     *)
(* shared with s until the slot is assigned.                               *)
(***************************************************************************)
Ref(at) == [tag |-> "ref", at |-> at]

Val(v) == [tag |-> "val", v |-> v]

Allocated(heap, object) == [heap |-> Append(heap, object), slot |-> Ref(Len(heap) + 1)]

\* the request's schema as objects on the heap
RECURSIVE store(_, _)
RECURSIVE storeProperties(_, _, _, _)
store(heap, s) ==
    IF DOMAIN s \in {{"null"}, {"undefined"}} THEN [heap |-> heap, slot |-> Val(s)]
    ELSE LET items == IF "items" \in DOMAIN s THEN store(heap, s["items"])
                      ELSE [heap |-> heap, slot |-> Val(JsonUndefined)]
             props == IF "properties" \in DOMAIN s
                      THEN storeProperties(items.heap, s["properties"],
                                           DOMAIN s["properties"], <<>>)
                      ELSE [heap |-> items.heap, slot |-> Val(JsonUndefined)]
         IN  Allocated(props.heap,
                [k \in DOMAIN s |->
                   CASE k = "items" -> items.slot
                     [] k = "properties" -> props.slot
                     [] OTHER -> Val(s[k])])

storeProperties(heap, properties, names, object) ==
    IF names = {} THEN Allocated(heap, object)
    ELSE LET name == CHOOSE n \in names : TRUE
             r == store(heap, properties[name])
         IN  storeProperties(r.heap, properties, names \ {name},
                             object @@ (name :> r.slot))

\* the value that is reached from a slot
RECURSIVE load(_, _)
load(heap, slot) ==
    IF slot.tag = "val" THEN slot.v
    ELSE LET object == heap[slot.at]
         IN  [k \in DOMAIN object |->
                IF k = "properties"
                THEN LET properties == heap[object[k].at]
                     IN  [name \in DOMAIN properties |-> load(heap, properties[name])]
                ELSE load(heap, object[k])]

\* mapSchema, statement by statement; with copy = FALSE newSchema is s itself
RECURSIVE mapSchemaAt(_, _, _)
RECURSIVE mapProperties(_, _, _, _, _)
mapSchemaAt(heap, slot, copy) ==
    IF slot.tag = "val" THEN [heap |-> heap, slot |-> Val(JsonUndefined)]
    ELSE LET s == heap[slot.at]
             newSchema == IF copy THEN Len(heap) + 1 ELSE slot.at
             h1 == IF copy THEN Append(heap, s) ELSE heap
             h2 == IF "type" \in DOMAIN s
                   THEN [h1 EXCEPT ![newSchema]["type"] = Val(upperType(@.v))]
                   ELSE h1
             newProps == IF "properties" \in DOMAIN s
                         THEN mapProperties(h2, h2[s["properties"].at],
                                            DOMAIN h2[s["properties"].at], <<>>, copy)
                         ELSE [heap |-> h2, slot |-> Val(JsonUndefined)]
             h3 == IF "properties" \in DOMAIN s
                   THEN [newProps.heap EXCEPT ![newSchema]["properties"] = newProps.slot]
                   ELSE h2
             items == IF "items" \in DOMAIN s /\ s["items"].tag = "ref"
                      THEN mapSchemaAt(h3, s["items"], copy)
                      ELSE [heap |-> h3, slot |-> Val(JsonUndefined)]
             h4 == IF "items" \in DOMAIN s /\ s["items"].tag = "ref"
                   THEN [items.heap EXCEPT ![newSchema]["items"] = items.slot]
                   ELSE h3
         IN  [heap |-> [h4 EXCEPT ![newSchema] =
                           Restrict(@, DOMAIN @ \ {"additionalProperties", "$schema"})],
              slot |-> Ref(newSchema)]

\* the loop over Object.entries(newSchema.properties) that fills newProps
mapProperties(heap, properties, names, newProps, copy) ==
    IF names = {} THEN Allocated(heap, newProps)
    ELSE LET key == CHOOSE n \in names : TRUE
             r == mapSchemaAt(heap, properties[key], copy)
         IN  mapProperties(r.heap, properties, names \ {key},
                           newProps @@ (key :> r.slot), copy)

mapSchemaInPlace(heap, slot) ==
    mapSchemaAt(heap, slot, FALSE)

\* generationConfig.responseSchema = mapSchema(openAISchema)
mapSchemaOnHeap(heap, slot) ==
    mapSchemaAt(heap, slot, TRUE)

\* the request's schema and the responseSchema after the call
afterMapSchema(schema) ==
    LET request == store(<<>>, schema)
        r == mapSchemaOnHeap(request.heap, request.slot)
    IN  [request |-> load(r.heap, request.slot), built |-> load(r.heap, r.slot)]

(***************************************************************************)
(* The schemas the transform is applied to.                                *)
(***************************************************************************)
\* the keys of one schema object besides properties and items
NodeKeys(typeName) ==
    { Restrict(all, keys) :
        all \in { [type |-> t, additionalProperties |-> "false"]
                     @@ ("$schema" :> "http://json-schema.org/draft-07/schema#")
                  : t \in {TypeStr(typeName), TypeArr(<<typeName, "null">>)} },
        keys \in { {}, {"type"}, {"additionalProperties", "$schema"},
                   {"type", "additionalProperties", "$schema"} } }

RECURSIVE SchemasOfDepth(_)
SchemasOfDepth(d) ==
    IF d = 0 THEN NodeKeys("string") \cup {JsonNull}
    ELSE LET inner == SchemasOfDepth(d - 1)
         IN  NodeKeys("string")
             \cup { n @@ [properties |-> [x |-> c], required |-> <<"x">>] :
                       n \in NodeKeys("object"), c \in inner }
             \cup { n @@ [items |-> c] : n \in NodeKeys("array"), c \in inner }

\* property names that are also schema keywords
KeywordNamedProperties ==
    [type |-> TypeStr("object"),
     properties |-> [type |-> [type |-> TypeStr("string")],
                     additionalProperties |-> [type |-> TypeStr("number")],
                     items |-> [type |-> TypeStr("array"),
                                items |-> [type |-> TypeStr("string")]]]]

\* {type:'object', properties:{x:{type:'string'}}}
ScenarioC == [type |-> TypeStr("object"), properties |-> [x |-> [type |-> TypeStr("string")]]]

Schemas == SchemasOfDepth(MaxSchemaDepth) \cup {KeywordNamedProperties, ScenarioC}

MapSchema ==
    /\ sc.pc = "input"
    /\ sc' = [sc EXCEPT !.pc = "mapped", !.responseSchema = mapSchema(sc.schema),
                         !.request = afterMapSchema(sc.request).request,
                         !.built = afterMapSchema(sc.request).built]
    /\ UNCHANGED <<ld, an, ge, oa, pa, se, pm, mr, lg, mt, cr, pf, lp>>

SchemaReset ==
    /\ sc.pc = "mapped"
    /\ sc' = [sc EXCEPT !.pc = "input", !.responseSchema = JsonUndefined,
                         !.built = JsonUndefined]
    /\ UNCHANGED <<ld, an, ge, oa, pa, se, pm, mr, lg, mt, cr, pf, lp>>

InitSchema ==
    /\ sc \in {[pc |-> "input", schema |-> s, responseSchema |-> JsonUndefined,
                 request |-> s, built |-> JsonUndefined] : s \in Schemas}
    /\ ld = Idle /\ an = Idle /\ ge = Idle /\ oa = Idle
    /\ pa = Idle /\ se = Idle /\ RestIdle

NextSchema == MapSchema \/ SchemaReset

SpecSchema == InitSchema /\ [][NextSchema]_vars

(***************************************************************************)
(* Chat requests (../chat Request) and execution options.  An optional     *)
(* value is <<>> (undefined) or <<v>>.                                     *)
(***************************************************************************)
None == <<>>

Some(v) == <<v>>

Roles == {"system", "developer", "user", "assistant"}

Str(text) == [str |-> TRUE, text |-> text]

\* a content that is no string: the array [text]
Arr(text) == [str |-> FALSE, text |-> text]

\* typeof msg.content === 'string' ? msg.content : JSON.stringify(msg.content)
contentString(content) ==
    IF content.str THEN content.text ELSE <<"[\"">> \o content.text \o <<"\"]">>

Contents == {Str(<<>>), Str(<<"a">>), Str(<<" ", "b">>)}

Messages == [role : Roles, content : Contents, name : {None}]

Msg(role, content) == [role |-> role, content |-> content, name |-> None]

\* message lists with a content that is no string, a whitespace-only
\* content and a named message
SpecialMessageLists ==
    { <<Msg("system", Str(<<"a">>)), Msg("user", Str(<<"a">>))>>,
      <<Msg("developer", Arr(<<"a">>)), Msg("user", Arr(<<"b">>))>>,
      <<Msg("system", Str(<<" ">>)), Msg("user", Str(<<"a">>))>>,
      <<[role |-> "user", content |-> Str(<<"a">>), name |-> Some("bob")],
        Msg("assistant", Str(<<"b">>)), Msg("user", Str(<<"a">>))>> }

JsonObjectFormat == [type |-> "json_object"]

JsonSchemaFormat(description, schema) ==
    [type |-> "json_schema",
     json_schema |-> [name |-> "answer", description |-> description, schema |-> schema]]

SentSchema ==
    [type |-> TypeStr("object"), additionalProperties |-> "false",
     properties |-> [x |-> [type |-> TypeStr("string")]]]
    @@ ("$schema" :> "http://json-schema.org/draft-07/schema#")

ResponseFormats ==
    { None, Some(JsonObjectFormat),
      Some(JsonSchemaFormat(None, SentSchema)),
      Some(JsonSchemaFormat(Some(<<"An answer">>), ScenarioC)) }

Requests ==
    [messages : SeqsUpTo(Messages, MaxMsgs), model : {None}, responseFormat : {None}]
    \cup [messages : SpecialMessageLists, model : {None, Some("m1")},
          responseFormat : ResponseFormats]

IsStructured(request) ==
    request.responseFormat # None /\ request.responseFormat[1].type = "json_schema"

\* options and process.env, as far as execute reads them
KeyedOptions == [apiKey |-> Some("opt-key"), model |-> None]

Calls ==
    [request : Requests, options : {KeyedOptions}, envKey : {None}, proxyUrl : {None}]
    \cup [request : {[messages |-> <<Msg("user", Str(<<"a">>))>>, model |-> Some("m1"),
                      responseFormat |-> None]},
          options : [apiKey : {None, Some("opt-key")}, model : {None, Some("m2")}],
          envKey : {None, Some("env-key")},
          proxyUrl : {None, Some("http://proxy:8080")}]

\* globalThis.fetch as the process starts with it
NativeFetch == [fn |-> "fetch", id |-> 0]

\* createProxyFetch: a new function every time
createProxyFetch(id) == [fn |-> "proxyFetch", id |-> id]

resolveApiKeyEnvFirst(options, envKey) ==
    IF envKey # None THEN envKey ELSE options.apiKey

\* options.apiKey || process.env.<PROVIDER>_API_KEY
resolveApiKey(options, envKey) ==
    IF options.apiKey # None THEN options.apiKey ELSE envKey

\* a || b
OrElse(a, b) == IF a # None THEN a ELSE b

\* a test that knows only the role system
IsSystemOnly(role) == role = "system"

\* msg.role === 'system' || msg.role === 'developer'
IsSystemRole(role) == role = "system" \/ role = "developer"

(***************************************************************************)
(* AnthropicProvider.execute                                               *)
(***************************************************************************)
DefaultMaxTokens == 4096

\* the loop that separates the system prompt from the messages
RECURSIVE anthropicSplit(_, _, _)
anthropicSplit(msgs, systemPrompt, messages) ==
    IF msgs = <<>> THEN [systemPrompt |-> systemPrompt, messages |-> messages]
    ELSE LET msg == Head(msgs)
         IN  IF IsSystemRole(msg.role)
             THEN anthropicSplit(Tail(msgs),
                                 systemPrompt \o contentString(msg.content) \o <<"\n", "\n">>,
                                 messages)
             ELSE anthropicSplit(Tail(msgs), systemPrompt,
                                 Append(messages, [role |-> msg.role,
                                                   content |-> contentString(msg.content)]))

\* the tools / tool_choice spread, with a tool_choice that does not force
anthropicStructuredAuto(request) ==
    IF IsStructured(request)
    THEN LET js == request.responseFormat[1].json_schema
         IN  [tools |-> <<[name |-> js.name,
                           description |-> OrElse(js.description,
                               Some(<<"Output data in this structured format">>)),
                           input_schema |-> js.schema]>>,
              tool_choice |-> [type |-> "auto"]]
    ELSE <<>>

\* the tools / tool_choice spread
anthropicStructured(request) ==
    IF IsStructured(request)
    THEN LET js == request.responseFormat[1].json_schema
         IN  [tools |-> <<[name |-> js.name,
                           description |-> OrElse(js.description,
                               Some(<<"Output data in this structured format">>)),
                           input_schema |-> js.schema]>>,
              tool_choice |-> [type |-> "tool", name |-> js.name]]
    ELSE <<>>

\* the argument of client.messages.create
anthropicParams(request, options) ==
    LET split == anthropicSplit(request.messages, <<>>, <<>>)
        system == Trim(split.systemPrompt)
    IN  [model |-> OrElse(options.model, OrElse(request.model, Some("claude-3-opus-20240229"))),
         system |-> IF system # <<>> THEN Some(system) ELSE None,
         messages |-> split.messages,
         max_tokens |-> DefaultMaxTokens,
         temperature |-> None]
        @@ anthropicStructured(request)

\* JSON.stringify(toolUseBlock.input, null, 2)
jsonStringify(input) == <<"{">> \o input \o <<"}">>

TextBlock == [type |-> "text", text |-> <<"free text">>]

ToolUseBlock == [type |-> "tool_use", name |-> "answer", input |-> <<"x: 1">>]

\* response.content as the API may return it
AnthropicContents ==
    { <<>>, <<TextBlock>>, <<ToolUseBlock>>, <<TextBlock, ToolUseBlock>> }

RECURSIVE findToolUse(_)
findToolUse(content) ==
    IF content = <<>> THEN None
    ELSE IF Head(content).type = "tool_use" THEN Some(Head(content))
    ELSE findToolUse(Tail(content))

\* the part of execute after the await: [threw, text]
anthropicText(request, content) ==
    IF IsStructured(request)
    THEN LET toolUseBlock == findToolUse(content)
         IN  [threw |-> FALSE,
              text |-> IF toolUseBlock # None
                       THEN jsonStringify(toolUseBlock[1].input) ELSE <<>>]
    ELSE IF content = <<>> THEN [threw |-> TRUE, text |-> <<>>]
    ELSE [threw |-> FALSE,
          text |-> IF content[1].type = "text" THEN content[1].text ELSE <<>>]

NoProviderBusy == an = Idle /\ ge = Idle /\ oa = Idle

AnthropicExecute ==
    /\ NoProviderBusy
    /\ \E call \in Calls :
          LET apiKey == resolveApiKey(call.options, call.envKey)
          IN  an' = IF apiKey = None
                    THEN [pc |-> "failed", call |-> call,
                          error |-> "Anthropic API key is required"]
                    ELSE [pc |-> "awaiting", call |-> call, apiKey |-> apiKey,
                          params |-> anthropicParams(call.request, call.options)]
    /\ UNCHANGED <<ld, ge, oa, sc, pa, se, pm, mr, lg, mt, cr, pf, lp>>

AnthropicRespond ==
    /\ an.pc = "awaiting"
    /\ \E content \in AnthropicContents :
          LET r == anthropicText(an.call.request, content)
          IN  an' = IF r.threw
                    THEN [pc |-> "failed", call |-> an.call, error |-> "TypeError"]
                    ELSE [pc |-> "done", call |-> an.call, params |-> an.params,
                          response |-> content, content |-> r.text]
    /\ UNCHANGED <<ld, ge, oa, sc, pa, se, pm, mr, lg, mt, cr, pf, lp>>

AnthropicReject ==
    /\ an.pc = "awaiting"
    /\ an' = [pc |-> "failed", call |-> an.call, error |-> "APIError"]
    /\ UNCHANGED <<ld, ge, oa, sc, pa, se, pm, mr, lg, mt, cr, pf, lp>>

AnthropicSettled ==
    /\ an.pc \in {"done", "failed"}
    /\ an' = Idle
    /\ UNCHANGED <<ld, ge, oa, sc, pa, se, pm, mr, lg, mt, cr, pf, lp>>

(***************************************************************************)
(* GeminiProvider.execute                                                  *)
(***************************************************************************)
\* the loop that extracts the system prompt
RECURSIVE geminiSystemInstruction(_, _)
geminiSystemInstruction(msgs, systemInstruction) ==
    IF msgs = <<>> THEN systemInstruction
    ELSE LET msg == Head(msgs)
         IN  geminiSystemInstruction(
                Tail(msgs),
                IF IsSystemRole(msg.role)
                THEN systemInstruction \o contentString(msg.content) \o <<"\n", "\n">>
                ELSE systemInstruction)

\* the loop that builds chatHistory and lastUserMessage
RECURSIVE geminiHistory(_, _, _)
geminiHistory(msgs, chatHistory, lastUserMessage) ==
    IF msgs = <<>>
    THEN [chatHistory |-> chatHistory, lastUserMessage |-> lastUserMessage]
    ELSE LET msg == Head(msgs)
             content == contentString(msg.content)
         IN  IF IsSystemRole(msg.role)
             THEN geminiHistory(Tail(msgs), chatHistory, lastUserMessage)
             ELSE geminiHistory(
                     Tail(msgs),
                     Append(chatHistory,
                            [role |-> IF msg.role = "assistant" THEN "model" ELSE "user",
                             parts |-> <<[text |-> content]>>]),
                     IF msg.role = "user" THEN content ELSE lastUserMessage)

geminiGenerationConfig(request) ==
    IF IsStructured(request)
    THEN [responseMimeType |-> "application/json",
          responseSchema |-> mapSchema(request.responseFormat[1].json_schema.schema)]
    ELSE <<>>

\* the argument of genAI.getGenerativeModel
geminiModel(request, options) ==
    LET systemInstruction == geminiSystemInstruction(request.messages, <<>>)
    IN  [model |-> OrElse(options.model, OrElse(request.model, Some("gemini-1.5-pro"))),
         systemInstruction |-> IF systemInstruction # <<>>
                               THEN Some(Trim(systemInstruction)) ELSE None,
         generationConfig |-> geminiGenerationConfig(request)]

\* what is sent: startChat + sendMessage, or generateContent
geminiSend(request) ==
    LET built == geminiHistory(request.messages, <<>>, <<>>)
        n == Len(built.chatHistory)
    IN  IF n > 1
        THEN LET lastMsg == built.chatHistory[n]
             IN  [method |-> "sendMessage",
                  history |-> SubSeq(built.chatHistory, 1, n - 1),
                  text |-> lastMsg.parts[1].text,
                  chatHistory |-> built.chatHistory]
        ELSE [method |-> "generateContent",
              history |-> <<>>,
              text |-> IF built.lastUserMessage # <<>> THEN built.lastUserMessage ELSE <<" ">>,
              chatHistory |-> built.chatHistory]

GeminiTexts == {<<>>, <<"free text">>}

GeminiExecute ==
    /\ NoProviderBusy
    /\ \E call \in Calls :
          LET apiKey == resolveApiKey(call.options, call.envKey)
          IN  ge' = IF apiKey = None
                    THEN [pc |-> "failed", call |-> call, fetch |-> NativeFetch,
                          error |-> "Gemini API key is required"]
                    ELSE [pc |-> "awaiting", call |-> call, apiKey |-> apiKey,
                          fetch |-> IF call.proxyUrl # None
                                    THEN createProxyFetch(1) ELSE NativeFetch,
                          model |-> geminiModel(call.request, call.options),
                          sent |-> geminiSend(call.request)]
    /\ UNCHANGED <<ld, an, oa, sc, pa, se, pm, mr, lg, mt, cr, pf, lp>>

GeminiRespond ==
    /\ ge.pc = "awaiting"
    /\ \E text \in GeminiTexts :
          ge' = [pc |-> "done", call |-> ge.call, model |-> ge.model, sent |-> ge.sent,
                 fetch |-> NativeFetch, content |-> text]
    /\ UNCHANGED <<ld, an, oa, sc, pa, se, pm, mr, lg, mt, cr, pf, lp>>

GeminiReject ==
    /\ ge.pc = "awaiting"
    /\ ge' = [pc |-> "failed", call |-> ge.call, fetch |-> NativeFetch, error |-> "APIError"]
    /\ UNCHANGED <<ld, an, oa, sc, pa, se, pm, mr, lg, mt, cr, pf, lp>>

GeminiSettled ==
    /\ ge.pc \in {"done", "failed"}
    /\ ge' = Idle
    /\ UNCHANGED <<ld, an, oa, sc, pa, se, pm, mr, lg, mt, cr, pf, lp>>

(***************************************************************************)
(* OpenAIProvider.execute                                                  *)
(***************************************************************************)
\* request.messages.map(...)
RECURSIVE openaiMessages(_)
openaiMessages(msgs) ==
    IF msgs = <<>> THEN <<>>
    ELSE LET msg == Head(msgs)
             role == IF msg.role = "developer" THEN "system" ELSE msg.role
         IN  <<[role |-> role, content |-> contentString(msg.content),
                name |-> msg.name]>> \o openaiMessages(Tail(msgs))

\* the argument of client.chat.completions.create
openaiParams(request, options) ==
    [model |-> OrElse(options.model, OrElse(request.model, Some("gpt-4"))),
     messages |-> openaiMessages(request.messages),
     temperature |-> None,
     max_tokens |-> None,
     response_format |-> request.responseFormat]

\* choice.message.content, null or a string
OpenAIContents == {None, Some(<<"free text">>)}

OpenAIExecute ==
    /\ NoProviderBusy
    /\ \E call \in Calls :
          LET apiKey == resolveApiKey(call.options, call.envKey)
          IN  oa' = IF apiKey = None
                    THEN [pc |-> "failed", call |-> call,
                          error |-> "OpenAI API key is required"]
                    ELSE [pc |-> "awaiting", call |-> call, apiKey |-> apiKey,
                          params |-> openaiParams(call.request, call.options)]
    /\ UNCHANGED <<ld, an, ge, sc, pa, se, pm, mr, lg, mt, cr, pf, lp>>

OpenAIRespond ==
    /\ oa.pc = "awaiting"
    /\ \E content \in OpenAIContents :
          oa' = [pc |-> "done", call |-> oa.call, params |-> oa.params,
                 content |-> IF content # None THEN content[1] ELSE <<>>]
    /\ UNCHANGED <<ld, an, ge, sc, pa, se, pm, mr, lg, mt, cr, pf, lp>>

OpenAIReject ==
    /\ oa.pc = "awaiting"
    /\ oa' = [pc |-> "failed", call |-> oa.call, error |-> "APIError"]
    /\ UNCHANGED <<ld, an, ge, sc, pa, se, pm, mr, lg, mt, cr, pf, lp>>

OpenAISettled ==
    /\ oa.pc \in {"done", "failed"}
    /\ oa' = Idle
    /\ UNCHANGED <<ld, an, ge, sc, pa, se, pm, mr, lg, mt, cr, pf, lp>>

InitExecution ==
    /\ an = Idle /\ ge = Idle /\ oa = Idle
    /\ ld = Idle /\ sc = Idle
    /\ pa = Idle /\ se = Idle /\ RestIdle

NextExecution ==
    \/ AnthropicExecute \/ AnthropicRespond \/ AnthropicReject \/ AnthropicSettled
    \/ GeminiExecute \/ GeminiRespond \/ GeminiReject \/ GeminiSettled
    \/ OpenAIExecute \/ OpenAIRespond \/ OpenAIReject \/ OpenAISettled

SpecExecution == InitExecution /\ [][NextExecution]_vars

(***************************************************************************)
(* The Markdown parser (Parser.parse).  The text is a sequence of lines: a *)
(* heading with its depth (the number of #) and text, a paragraph line, a  *)
(* list line or a blank line.  The parser reads one line at a time and     *)
(* keeps the implicit top-level Section (root), the Sections that are open *)
(* (stack, each with its depth and its place in root) and the lines of the *)
(* paragraph it is accumulating.                                           *)
(***************************************************************************)
Heading(depth, text) == [kind |-> "heading", depth |-> depth, text |-> text]

Paragraph(text) == [kind |-> "paragraph", depth |-> 0, text |-> text]

ListLine(text) == [kind |-> "list", depth |-> 0, text |-> text]

BlankLine == [kind |-> "blank", depth |-> 0, text |-> ""]

MarkdownLines ==
    {Heading(d, t) : d \in 1..MaxHeadingDepth, t \in {"A", "B"}}
    \cup {Paragraph("p"), ListLine("i"), BlankLine}

ParserOptions == [parameters |-> NoParameters]

\* the Section that path leads to from section, an index into items a step
RECURSIVE sectionAt(_, _)
sectionAt(section, path) ==
    IF path = <<>> THEN section ELSE sectionAt(section.items[Head(path)], Tail(path))

\* section.add(item) on the Section that path leads to
RECURSIVE addAt(_, _, _)
addAt(section, path, item) ==
    IF path = <<>> THEN add(section, item)
    ELSE [section EXCEPT !.items[Head(path)] = addAt(@, Tail(path), item)]

\* close the accumulating paragraph: one item in the current Section
flushParagraph(st) ==
    IF st.paragraph = <<>> THEN st
    ELSE [st EXCEPT !.root = addAt(@, st.stack[Len(st.stack)].path,
                                   textItem(st.paragraph, ParserOptions)),
                    !.paragraph = <<>>]

\* a closing rule that keeps an open Section of the heading's own depth
RECURSIVE closeDeeperOnly(_, _)
closeDeeperOnly(stack, depth) ==
    IF Len(stack) > 1 /\ stack[Len(stack)].depth > depth
    THEN closeDeeperOnly(SubSeq(stack, 1, Len(stack) - 1), depth)
    ELSE stack

\* close all open Sections at depth >= depth; the implicit one stays open
RECURSIVE closeSections(_, _)
closeSections(stack, depth) ==
    IF Len(stack) > 1 /\ stack[Len(stack)].depth >= depth
    THEN closeSections(SubSeq(stack, 1, Len(stack) - 1), depth)
    ELSE stack

\* a heading line: close, then open a Section titled by the heading inside
\* the Section that is now the current one
openSection(st, line) ==
    LET open == closeSections(st.stack, line.depth)
        parent == open[Len(open)]
        index == Len(sectionAt(st.root, parent.path).items) + 1
    IN  [st EXCEPT !.root = addAt(@, parent.path,
                                  createSection(withTitle(ParserOptions, line.text))),
                   !.stack = Append(open, [depth |-> line.depth,
                                           path |-> Append(parent.path, index)])]

parseLine(st, line) ==
    CASE line.kind = "heading" -> openSection(flushParagraph(st), line)
      [] line.kind = "paragraph" -> [st EXCEPT !.paragraph = Append(@, line.text)]
      [] line.kind = "blank" -> flushParagraph(st)
      [] line.kind = "list" ->
            LET flushed == flushParagraph(st)
            IN  [flushed EXCEPT !.root = addAt(@, flushed.stack[Len(flushed.stack)].path,
                                               textItem(<<line.text>>, ParserOptions))]

\* what parse returns: the implicit Section, or the Section that is all it holds
parseResult(root) ==
    IF Len(root.items) = 1 /\ root.items[1].kind = "section" THEN root.items[1] ELSE root

ParserStart(lines) ==
    [pc |-> "parsing", lines |-> lines, pos |-> 1,
     root |-> createSection(withTitle(ParserOptions, "")),
     stack |-> <<[depth |-> 0, path |-> <<>>]>>,
     paragraph |-> <<>>, result |-> createSection(withTitle(ParserOptions, ""))]

ParseLine ==
    /\ pa.pc = "parsing"
    /\ pa.pos <= Len(pa.lines)
    /\ pa' = [parseLine(pa, pa.lines[pa.pos]) EXCEPT !.pos = @ + 1]
    /\ UNCHANGED <<ld, an, ge, oa, sc, se, pm, mr, lg, mt, cr, pf, lp>>

ParseEnd ==
    /\ pa.pc = "parsing"
    /\ pa.pos > Len(pa.lines)
    /\ LET flushed == flushParagraph(pa)
       IN  pa' = [flushed EXCEPT !.pc = "done", !.result = parseResult(flushed.root)]
    /\ UNCHANGED <<ld, an, ge, oa, sc, se, pm, mr, lg, mt, cr, pf, lp>>

InitParser ==
    /\ pa \in {ParserStart(lines) : lines \in SeqsUpTo(MarkdownLines, MaxLines)}
    /\ ld = Idle /\ an = Idle /\ ge = Idle /\ oa = Idle /\ sc = Idle /\ se = Idle /\ RestIdle

NextParser == ParseLine \/ ParseEnd

SpecParser == InitParser /\ [][NextParser]_vars

(***************************************************************************)
(* Section mutation (add, append, prepend, insert, replace, remove).       *)
(* heap holds the Section objects there are, self is the one the calls are *)
(* made on; last is the last call with its outcome and the object it        *)
(* returned, before the items it found.  Indexes count from 0.             *)
(***************************************************************************)
SectionOptions == [parameters |-> NoParameters]

\* a string given to the Section is wrapped into an item
SectionItems == {textItem(<<t>>, SectionOptions) : t \in {"A", "B", "C"}}

append(section, item) == add(section, item)

prepend(section, item) == [section EXCEPT !.items = <<item>> \o @]

insert(section, index, item) ==
    [section EXCEPT !.items = SubSeq(@, 1, index) \o <<item>> \o SubSeq(@, index + 1, Len(@))]

\* a bounds check that lets index = items.length through
checkIndexInclusive(section, index) ==
    IF index >= 0 /\ index <= Len(section.items) THEN "ok" ELSE "IndexOutOfRange"

\* the bounds check of replace and remove: index in [0, items.length)
checkIndex(section, index) ==
    IF index >= 0 /\ index < Len(section.items) THEN "ok" ELSE "IndexOutOfRange"

replace(section, index, item) ==
    [section EXCEPT !.items = [k \in 1..Len(@) |-> IF k = index + 1 THEN item ELSE @[k]]]

remove(section, index) ==
    [section EXCEPT !.items = SubSeq(@, 1, index) \o SubSeq(@, index + 2, Len(@))]

\* a mutation that answers a changed copy and leaves the Section as it was
returnCopy(st, call, section) ==
    [st EXCEPT !.heap = Append(@, section),
               !.before = st.heap[st.self].items,
               !.last = call @@ [outcome |-> "ok", returned |-> Len(st.heap) + 1]]

\* a mutation in place: the Section object changes and is what is returned
returnSelf(st, call, section) ==
    [st EXCEPT !.heap[st.self] = section,
               !.before = st.heap[st.self].items,
               !.last = call @@ [outcome |-> "ok", returned |-> st.self]]

\* a call that throws: nothing changes and nothing is returned
throwError(st, call, error) ==
    [st EXCEPT !.before = st.heap[st.self].items,
               !.last = call @@ [outcome |-> error, returned |-> 0]]

SectionCall(op, index, item) == [op |-> op, index |-> index, item |-> item]

SectionAdd ==
    /\ se.pc = "ready" /\ Len(se.heap[se.self].items) < MaxItems
    /\ \E item \in SectionItems :
          se' = returnSelf(se, SectionCall("add", 0, item), add(se.heap[se.self], item))
    /\ UNCHANGED <<ld, an, ge, oa, sc, pa, pm, mr, lg, mt, cr, pf, lp>>

SectionAppend ==
    /\ se.pc = "ready" /\ Len(se.heap[se.self].items) < MaxItems
    /\ \E item \in SectionItems :
          se' = returnSelf(se, SectionCall("append", 0, item),
                           append(se.heap[se.self], item))
    /\ UNCHANGED <<ld, an, ge, oa, sc, pa, pm, mr, lg, mt, cr, pf, lp>>

SectionPrepend ==
    /\ se.pc = "ready" /\ Len(se.heap[se.self].items) < MaxItems
    /\ \E item \in SectionItems :
          se' = returnSelf(se, SectionCall("prepend", 0, item),
                           prepend(se.heap[se.self], item))
    /\ UNCHANGED <<ld, an, ge, oa, sc, pa, pm, mr, lg, mt, cr, pf, lp>>

\* insert, for the indexes from 0 to items.length
SectionInsert ==
    /\ se.pc = "ready" /\ Len(se.heap[se.self].items) < MaxItems
    /\ \E item \in SectionItems, index \in 0..Len(se.heap[se.self].items) :
          se' = returnSelf(se, SectionCall("insert", index, item),
                           insert(se.heap[se.self], index, item))
    /\ UNCHANGED <<ld, an, ge, oa, sc, pa, pm, mr, lg, mt, cr, pf, lp>>

SectionReplace ==
    /\ se.pc = "ready"
    /\ \E item \in SectionItems, index \in (0 - 1)..(MaxItems + 1) :
          LET call == SectionCall("replace", index, item)
              checked == checkIndex(se.heap[se.self], index)
          IN  se' = IF checked = "ok"
                    THEN returnSelf(se, call, replace(se.heap[se.self], index, item))
                    ELSE throwError(se, call, checked)
    /\ UNCHANGED <<ld, an, ge, oa, sc, pa, pm, mr, lg, mt, cr, pf, lp>>

SectionRemove ==
    /\ se.pc = "ready"
    /\ \E index \in (0 - 1)..(MaxItems + 1) :
          LET call == SectionCall("remove", index, textItem(<<>>, SectionOptions))
              checked == checkIndex(se.heap[se.self], index)
          IN  se' = IF checked = "ok"
                    THEN returnSelf(se, call, remove(se.heap[se.self], index))
                    ELSE throwError(se, call, checked)
    /\ UNCHANGED <<ld, an, ge, oa, sc, pa, pm, mr, lg, mt, cr, pf, lp>>

InitSection ==
    /\ se = [pc |-> "ready", self |-> 1,
             heap |-> <<createSection(withTitle(SectionOptions, "Example"))>>,
             before |-> <<>>,
             last |-> SectionCall("create", 0, textItem(<<>>, SectionOptions))
                      @@ [outcome |-> "ok", returned |-> 1]]
    /\ ld = Idle /\ an = Idle /\ ge = Idle /\ oa = Idle /\ sc = Idle /\ pa = Idle /\ RestIdle

NextSection ==
    \/ SectionAdd \/ SectionAppend \/ SectionPrepend
    \/ SectionInsert \/ SectionReplace \/ SectionRemove

SpecSection == InitSection /\ [][NextSection]_vars

(***************************************************************************)
(* Properties of the Loader.                                               *)
(***************************************************************************)
\* a regular file of the listing that is not context.md
IsPlainFile(file) == file.isFile /\ file.name # ContextMd

\* the entry's name matches one of the regexes
NameMatches(regexes, file) ==
    \E i \in 1..Len(regexes) : test(regexes[i], file.name)

\* some storage call made for the directory throws
StorageThrows(dir, patterns) ==
    LET kept == {i \in 1..Len(dir.entries) :
                    /\ dir.entries[i].name # ContextMd
                    /\ keepFile(createSafeIgnorePatterns(patterns), dir.path,
                                dir.entries[i].name)}
    IN  \/ dir.fail \in {"exists", "listFiles"}
        \/ dir.fail = "readContext" /\ hasContextFile(dir)
        \/ dir.fail = "isFile" /\ kept # {}
        \/ dir.fail = "readFile" /\ \E i \in kept : dir.entries[i].isFile

LoadedOk(patterns) ==
    SelectSeq(ld.contextDirectories, LAMBDA d : ~StorageThrows(d, patterns))

LoadFailed(patterns) ==
    SelectSeq(ld.contextDirectories, LAMBDA d : StorageThrows(d, patterns))

SubSections(section) ==
    {section.items[i] : i \in {j \in 1..Len(section.items) :
                                  section.items[j].kind = "section"}}

\* C1: load never rejects; when it returns, every directory whose processing
\* threw has logged exactly one error and every other directory, also one
\* listed after a failing one, has its Section in the result.
C1_PartialFailureTolerant ==
    /\ ld.pc \in {"idle", "loop", "done"}
    /\ ld.pc = "done" =>
          /\ Len(ld.errors) = Len(LoadFailed(ld.ignorePatterns))
          /\ \A i \in 1..Len(ld.errors) :
                ld.errors[i] = basename(LoadFailed(ld.ignorePatterns)[i].path)
          /\ \A i \in 1..Len(ld.contextDirectories) :
                LET dir == ld.contextDirectories[i]
                IN  ~StorageThrows(dir, ld.ignorePatterns) =>
                       processDirectory(dir, ld.ignorePatterns, ld.sectionOptions).section
                          \in Range(ld.result)

\* a load that returned after a failing first and a sound second directory
C1_Witness ==
    /\ ld.pc = "done"
    /\ Len(ld.contextDirectories) = 2
    /\ StorageThrows(ld.contextDirectories[1], ld.ignorePatterns)
    /\ ~StorageThrows(ld.contextDirectories[2], ld.ignorePatterns)
    /\ Len(ld.result) = 1
    /\ Len(ld.errors) = 1

\* C8 as stated: the result has the length of the input list and its i-th
\* Section is the one built from the i-th directory.
C8_OneSectionPerInput ==
    ld.pc = "done" =>
       /\ Len(ld.result) = Len(ld.contextDirectories)
       /\ \A i \in 1..Len(ld.result) :
             ld.result[i] =
                processDirectory(ld.contextDirectories[i], ld.ignorePatterns, ld.sectionOptions).section

\* C8 amended: the result holds exactly one Section per directory that was
\* processed without error, in input order (so it has the input's length
\* when no directory fails).
C8_OneSectionPerLoadedDirectory ==
    ld.pc = "done" =>
       LET ok == LoadedOk(ld.ignorePatterns)
       IN  /\ Len(ld.result) = Len(ok)
           /\ \A i \in 1..Len(ok) :
                 ld.result[i] = processDirectory(ok[i], ld.ignorePatterns, ld.sectionOptions).section

\* a load of two different sound directories that returned two Sections
C8_Witness ==
    /\ ld.pc = "done"
    /\ Len(ld.contextDirectories) = 2
    /\ Len(ld.result) = 2
    /\ ld.result[1] # ld.result[2]
    /\ LoadedOk(ld.ignorePatterns) = ld.contextDirectories

\* C9: an entry is excluded exactly when its name matches a compiled ignore
\* pattern: every regular file whose name matches none is a sub-Section of
\* its directory's Section, whatever the directory's path.
C9_FilterByName ==
    ld.pc = "done" =>
       LET ok == LoadedOk(ld.ignorePatterns)
           regexes == createSafeIgnorePatterns(ld.ignorePatterns)
       IN  \A i \in 1..Len(ok) : \A j \in 1..Len(ok[i].entries) :
              LET file == ok[i].entries[j]
              IN  IsPlainFile(file) =>
                     (fileSectionOf(file, ld.sectionOptions) \in SubSections(ld.result[i])
                         <=> ~NameMatches(regexes, file))

\* the patterns that neither SafeRegex.create nor the glob translator accepts
RejectedByBoth(pattern) ==
    ~SafeRegexCreate(pattern).safe /\ ~SafeRegexGlobToRegex(pattern).safe

\* C10 as stated: a pattern that SafeRegex.create rejects excludes no file
\* (the result is the one the other patterns alone give) and, when it is
\* blocked as unsafe, is logged as a warning.
C10_RejectedPatternExcludesNothing ==
    ld.pc = "done" =>
       LET others == SelectSeq(ld.ignorePatterns,
                               LAMBDA p : SafeRegexCreate(p).safe)
           ok == LoadedOk(ld.ignorePatterns)
       IN  /\ \A i \in 1..Len(ok) :
                 ld.result[i] = processDirectory(ok[i], others, ld.sectionOptions).section
           /\ \A k \in 1..Len(ld.ignorePatterns) :
                 (SafeRegexCreate(ld.ignorePatterns[k]).blocked /\ ok # <<>>) =>
                    \E w \in 1..Len(ld.warns) :
                       ld.warns[w].src = ld.ignorePatterns[k].src

\* C10 amended: a pattern that both SafeRegex.create and the glob fallback
\* reject never aborts load, is logged as a warning by every directory that
\* reaches the filter, and excludes no file: the result is the one the
\* remaining patterns alone give, applied to every entry of every directory.
C10_UnsafePatternIsNoOp ==
    /\ ld.pc \in {"idle", "loop", "done"}
    /\ ld.pc = "done" =>
          LET others == SelectSeq(ld.ignorePatterns, LAMBDA p : ~RejectedByBoth(p))
              ok == LoadedOk(ld.ignorePatterns)
          IN  /\ Len(ld.result) = Len(ok)
              /\ \A i \in 1..Len(ok) :
                    ld.result[i] = processDirectory(ok[i], others, ld.sectionOptions).section
              /\ \A k \in 1..Len(ld.ignorePatterns) :
                    RejectedByBoth(ld.ignorePatterns[k]) =>
                       Cardinality({w \in 1..Len(ld.warns) :
                                       ld.warns[w] = [kind |-> "invalid",
                                                      src |-> ld.ignorePatterns[k].src]})
                          >= Len(ok)

\* a load under <<"(a+)+" (rejected twice), "^\\..*">> that dropped the
\* hidden file and kept a.md
C10_Witness ==
    /\ ld.pc = "done"
    /\ ld.ignorePatterns = <<PatNestedRejected, PatDot>>
    /\ \E i \in 1..Len(ld.result) :
          /\ LoadedOk(ld.ignorePatterns)[i].entries = <<FileA, FileHidden>>
          /\ SubSections(ld.result[i]) = {fileSectionOf(FileA, ld.sectionOptions)}
    /\ \E w \in 1..Len(ld.warns) : ld.warns[w].kind = "invalid"

\* the entries of a directory that the filter and the file test let through
Survivors(dir, patterns) ==
    SelectSeq(dir.entries,
              LAMBDA f : /\ IsPlainFile(f)
                         /\ keepFile(createSafeIgnorePatterns(patterns), dir.path, f.name))

SubSectionSeq(section) == SelectSeq(section.items, LAMBDA it : it.kind = "section")

WithoutLine(c, i) == [k \in 1..(Len(c) - 1) |-> IF k < i THEN c[k] ELSE c[k + 1]]

\* the sub-Sections of every loaded directory are, one for one and in order,
\* what Expected makes of the directory's surviving files
FileSubSections(Expected(_)) ==
    ld.pc = "done" =>
       LET ok == LoadedOk(ld.ignorePatterns)
       IN  \A i \in 1..Len(ok) :
              LET subs == SubSectionSeq(ld.result[i])
                  surv == Survivors(ok[i], ld.ignorePatterns)
              IN  /\ Len(subs) = Len(surv)
                  /\ \A k \in 1..Len(surv) :
                        LET want == Expected(surv[k])
                        IN  /\ subs[k].title = want.title
                            /\ Len(subs[k].items) = 1
                            /\ subs[k].items[1].kind = "text"
                            /\ subs[k].items[1].text = want.text

\* title and item by the heading the content starts with
ByLeadingHeading(file) ==
    IF /\ EndsWith(file.name, <<".", "md">>)
       /\ file.content # <<>>
       /\ file.content[1].hdr
    THEN [title |-> Trim(file.content[1].text), text |-> Tail(file.content)]
    ELSE [title |-> file.name, text |-> file.content]

\* title and item by the first heading line wherever it stands
ByFirstHeading(file) ==
    LET hdrs == {i \in 1..Len(file.content) : file.content[i].hdr}
        first == CHOOSE i \in hdrs : \A j \in hdrs : i <= j
    IN  IF /\ EndsWith(file.name, <<".", "md">>)
           /\ hdrs # {}
           /\ Trim(file.content[first].text) # <<>>
        THEN [title |-> Trim(file.content[first].text),
              text |-> trimContent(WithoutLine(file.content, first))]
        ELSE [title |-> file.name, text |-> file.content]

OnlyIgnoredEntries(dir, patterns) ==
    \A k \in 1..Len(dir.entries) :
       dir.entries[k].name # ContextMd =>
          NameMatches(createSafeIgnorePatterns(patterns), dir.entries[k])

\* the text of context.md as the Section carries it: without its first
\* heading line and trimmed when that heading has a text, whole otherwise
ContextText(dir) ==
    ByFirstHeading([name |-> ContextMd, content |-> contextContent(dir)]).text

\* C13: a directory whose entries other than context.md all match an ignore
\* pattern gives a Section with no sub-Section; with context.md that Section
\* holds exactly the context.md text, also when the name context.md matches
\* an ignore pattern itself, and without it the Section is empty.
C13_IgnoredOnlyDirectory ==
    ld.pc = "done" =>
       LET ok == LoadedOk(ld.ignorePatterns)
       IN  /\ Len(ld.result) = Len(ok)
           /\ \A i \in 1..Len(ok) :
                 OnlyIgnoredEntries(ok[i], ld.ignorePatterns) =>
                    /\ SubSectionSeq(ld.result[i]) = <<>>
                    /\ IF hasContextFile(ok[i])
                       THEN /\ Len(ld.result[i].items) = 1
                            /\ ld.result[i].items[1].kind = "text"
                            /\ ld.result[i].items[1].text = ContextText(ok[i])
                       ELSE ld.result[i].items = <<>>

\* under "\\.md$", "^\\..*" and the archive pattern: a directory of .git,
\* context.md and b.zip that came back with the context.md body alone, and
\* one of b.zip and .git that came back empty
C13_Witness ==
    /\ ld.pc = "done"
    /\ ld.ignorePatterns = <<PatMd, PatDot, PatZip>>
    /\ Len(ld.result) = 2
    /\ ld.contextDirectories[1].entries = <<FileHidden, FileContext, FileZip>>
    /\ test(PatMd.rx, ContextMd)
    /\ ld.result[1].title = <<"Title">>
    /\ ld.result[1].items = <<textItem(<<[hdr |-> FALSE, text |-> <<"body">>]>>,
                                      ld.sectionOptions)>>
    /\ ld.contextDirectories[2].entries = <<FileZip, FileHidden>>
    /\ ld.result[2].items = <<>>

\* C14: load([]) (and load() with no argument, which defaults to []) returns
\* an empty array without a storage call and without a warning or an error.
C14_EmptyLoad ==
    (ld.pc # "idle" /\ ld.contextDirectories = <<>>) =>
       /\ ld.pc = "done"
       /\ ld.result = <<>>
       /\ ld.storageCalls = <<>>
       /\ ld.warns = <<>>
       /\ ld.errors = <<>>

\* load([]) has returned on a Loader whose pattern list holds a pattern that
\* would be warned about
C14_Witness ==
    /\ ld.pc = "done"
    /\ ld.contextDirectories = <<>>
    /\ ld.result = <<>>
    /\ ignoreWarnings(ld.ignorePatterns) # <<>>

\* C15: load does not descend: every sub-Section of a directory's Section
\* is made of a regular file that the directory lists itself, an entry that
\* is no regular file gives none, only the input directories are listed and
\* only regular files are read.
C15_NonRecursive ==
    LET inputs == Range(ld.contextDirectories)
        regular(d) == {k \in 1..Len(d.entries) : d.entries[k].isFile}
    IN  /\ \A c \in Range(ld.storageCalls) :
              /\ c.op = "listFiles" => \E d \in inputs : c.path = pathString(d.path)
              /\ c.op = "readFile" =>
                    \E d \in inputs : \E k \in regular(d) :
                       c.path = join(d.path, d.entries[k].name)
        /\ ld.pc = "done" =>
              LET ok == LoadedOk(ld.ignorePatterns)
              IN  \A i \in 1..Len(ok) :
                     LET subs == SubSectionSeq(ld.result[i])
                     IN  /\ Len(subs) <= Cardinality(regular(ok[i]))
                         /\ \A k \in 1..Len(subs) : \E e \in regular(ok[i]) :
                               LET want == ByFirstHeading(ok[i].entries[e])
                               IN  /\ subs[k].title = want.title
                                   /\ subs[k].items = <<textItem(want.text, ld.sectionOptions)>>
                         /\ \A item \in Range(ld.result[i].items) :
                               item.kind = "section" =>
                                  \A inner \in Range(item.items) : inner.kind = "text"

\* a load, with no ignore pattern, of a directory listing n.txt, context.md,
\* the subdirectory d.md and a.md: d.md was asked about and gave nothing
C15_Witness ==
    /\ ld.pc = "done"
    /\ ld.ignorePatterns = <<>>
    /\ Len(ld.result) = 1
    /\ ld.contextDirectories[1].entries = <<FileN, FileContextPlain, SubDirMd, FileA>>
    /\ [op |-> "isFile", path |-> <<"ctx", "/", "d", ".", "md">>] \in Range(ld.storageCalls)
    /\ Len(SubSectionSeq(ld.result[1])) = 2

\* the parameters of a Section, of its items and of its sub-Sections' items
ParametersIn(section) ==
    {section.parameters}
    \cup {section.items[k].parameters : k \in 1..Len(section.items)}
    \cup UNION { {section.items[k].items[j].parameters :
                     j \in 1..Len(section.items[k].items)} :
                  k \in {k \in 1..Len(section.items) :
                            section.items[k].kind = "section"} }

\* p gives every key of the call its call value and every other key of the
\* Loader its Loader value
ResolvedFor(p, own, given) ==
    /\ DOMAIN p = DOMAIN own \cup DOMAIN given
    /\ \A key \in DOMAIN p :
          p[key] = IF key \in DOMAIN given THEN given[key] ELSE own[key]

\* C16: every Section and item that a load() call creates has the call's
\* value for each key the call passes and the Loader's value for each other
\* key of the Loader; no step changes the Loader's own parameters, so the
\* next call resolves against the original values.
C16_CallParametersOverride ==
    /\ [](\A k \in 1..Len(ld.contextSections) :
             \A p \in ParametersIn(ld.contextSections[k]) :
                ResolvedFor(p, ld.parameters, ld.options.parameters))
    /\ [][ld'.parameters = ld.parameters]_vars

\* a call that passed name and extra to a Loader created with name and env
\* has returned a Section with a sub-Section
C16_Witness ==
    /\ ld.pc = "done"
    /\ ld.parameters = [name |-> "loader", env |-> "loader"]
    /\ ld.options.parameters = [name |-> "call", extra |-> "call"]
    /\ Len(ld.result) = 1
    /\ SubSectionSeq(ld.result[1]) # <<>>
    /\ SubSectionSeq(ld.result[1])[1].items[1].parameters
          = [name |-> "call", env |-> "loader", extra |-> "call"]

\* load() run from its entry to its return with no other call in between
RECURSIVE RunAlone(_)
RunAlone(l) ==
    IF l.pc = "done" THEN l
    ELSE IF l.idx > Len(l.contextDirectories)
    THEN [l EXCEPT !.pc = "done", !.result = l.contextSections]
    ELSE RunAlone(loadStep(l, l.contextDirectories[l.idx]))

\* C17: whatever the interleaving of two load() calls at their storage
\* awaits, on one Loader or on two, a call that has returned has the result
\* (and has made the storage calls and written the log lines) of the same
\* call run alone, and each Section of its result is the one built from one
\* of its own directories under its own options.
C17_ConcurrentLoadsIndependent ==
    \A c \in Callers :
       ld.calls[c].pc = "done" =>
          LET call == ld.calls[c]
              alone == RunAlone(newCall(ld.loaders[call.loader].ignorePatterns,
                                        loadOptions(ld.loaders[call.loader].parameters,
                                                    call.options),
                                        call.contextDirectories))
          IN  /\ call.result = alone.result
              /\ call.storageCalls = alone.storageCalls
              /\ call.errors = alone.errors
              /\ call.warns = alone.warns
              /\ \A k \in 1..Len(call.result) :
                    \E d \in Range(call.contextDirectories) :
                       call.result[k]
                          = processDirectory(d, call.ignorePatterns, call.sectionOptions).section

\* both calls have returned, call 1 (default patterns) with nothing but an
\* error for lib and call 2 (on the other Loader) with two Sections, and the
\* error line of call 1 stands in the log between warnings of call 2
C17_Witness ==
    /\ ld.calls[1].pc = "done" /\ ld.calls[2].pc = "done"
    /\ ld.calls[1].loader = 1 /\ ld.calls[2].loader = 2
    /\ ld.calls[1].result = <<>> /\ ld.calls[1].errors = <<<<"lib">>>>
    /\ Len(ld.calls[2].result) = 2
    /\ SubSectionSeq(ld.calls[2].result[1]) # <<>>
    /\ \E i, j, k \in 1..Len(ld.log) :
          /\ i < j /\ j < k
          /\ ld.log[i].level = "warn" /\ ld.log[j].level = "error"
          /\ ld.log[k].level = "warn"

(***************************************************************************)
(* Properties of the Markdown parser.                                      *)
(***************************************************************************)
RECURSIVE SortedSeq(_)
SortedSeq(S) ==
    IF S = {} THEN <<>>
    ELSE LET m == CHOOSE x \in S : \A y \in S : x <= y
         IN  <<m>> \o SortedSeq(S \ {m})

\* the titles of a Section and of the Sections nested in it, as a tree
RECURSIVE Skeleton(_)
Skeleton(section) ==
    LET subs == SelectSeq(section.items, LAMBDA it : it.kind = "section")
    IN  [title |-> section.title, kids |-> [k \in 1..Len(subs) |-> Skeleton(subs[k])]]

\* the texts of the items of a Section and of the Sections nested in it
RECURSIVE ItemTexts(_)
ItemTexts(section) ==
    UNION { IF section.items[k].kind = "section"
            THEN ItemTexts(section.items[k])
            ELSE {section.items[k].text} : k \in 1..Len(section.items) }

\* the heading that heading line i of lines nests in: the last heading
\* before it of smaller depth, 0 (the implicit Section) when there is none
EnclosingHeading(lines, i) ==
    LET before == {j \in 1..(i - 1) :
                      lines[j].kind = "heading" /\ lines[j].depth < lines[i].depth}
    IN  IF before = {} THEN 0 ELSE CHOOSE j \in before : \A k \in before : k <= j

\* the tree of titles that the first n lines describe below heading j
RECURSIVE NestingBelow(_, _, _)
NestingBelow(lines, n, j) ==
    LET inside == SortedSeq({i \in 1..n : /\ lines[i].kind = "heading"
                                          /\ EnclosingHeading(lines, i) = j})
    IN  [title |-> IF j = 0 THEN "" ELSE lines[j].text,
         kids |-> [k \in 1..Len(inside) |-> NestingBelow(lines, n, inside[k])]]

\* C18: after any number of lines the Sections nest as the heading depths
\* say: each heading is the title of a Section that lies in the Section of
\* the last heading before it of smaller depth (the Sections of depth >= d
\* are closed by a heading of depth d), in the order of the lines, and no
\* heading text is the text of an item; parse returns this tree, or the one
\* Section at its top when the text is nothing but that Section.
C18_HeadingsNestByDepth ==
    pa.pc \in {"parsing", "done"} =>
       LET n == pa.pos - 1
           tree == NestingBelow(pa.lines, n, 0)
       IN  /\ Skeleton(pa.root) = tree
           /\ \A text \in ItemTexts(pa.root) :
                 \A k \in 1..Len(text) : text[k] \notin {"A", "B"}
           /\ pa.pc = "done" =>
                 /\ Skeleton(pa.result) \in {tree} \cup Range(tree.kids)
                 /\ (Len(tree.kids) = 1 /\ Len(pa.root.items) = 1)
                       => Skeleton(pa.result) = tree.kids[1]

\* "# A", "## B", "## A" parsed: one root titled A with the two sibling
\* Sections B and A
C18_Witness ==
    /\ pa.pc = "done"
    /\ pa.lines = <<Heading(1, "A"), Heading(2, "B"), Heading(2, "A")>>
    /\ pa.result.title = "A"
    /\ Len(pa.result.items) = 2
    /\ pa.result.items[1].title = "B" /\ pa.result.items[1].items = <<>>
    /\ pa.result.items[2].title = "A" /\ pa.result.items[2].items = <<>>

(***************************************************************************)
(* Properties of Section mutation.                                         *)
(***************************************************************************)
\* seq without its element at the 0-based position index
Without(seq, index) ==
    [k \in 1..(Len(seq) - 1) |-> IF k <= index THEN seq[k] ELSE seq[k + 1]]

\* C19: replace and remove with an index outside [0, items.length) fail with
\* IndexOutOfRange and leave items as they were; remove with an index inside
\* takes out exactly that element, keeps the others in their order and
\* returns the Section.
C19_IndexOutOfRange ==
    LET items == se.heap[se.self].items
        inside == se.last.index >= 0 /\ se.last.index < Len(se.before)
    IN  /\ (se.last.op \in {"replace", "remove"} /\ ~inside) =>
              /\ se.last.outcome = "IndexOutOfRange"
              /\ items = se.before
        /\ (se.last.op = "remove" /\ inside) =>
              /\ se.last.outcome = "ok"
              /\ Len(items) = Len(se.before) - 1
              /\ items = Without(se.before, se.last.index)
              /\ se.last.returned = se.self

\* remove(3) on a Section of three items has failed and left the three
C19_Witness ==
    /\ se.last.op = "remove"
    /\ se.last.index = 3
    /\ Len(se.before) = 3
    /\ se.last.outcome = "IndexOutOfRange"
    /\ Len(se.heap[se.self].items) = 3

\* C20: add, append, prepend and insert change the Section in place and
\* return it: the item is last after add and append, first after prepend
\* and at position i after insert(i, x), the items that were there keep
\* their order, and there is no Section object that was not there before.
C20_MutationInPlace ==
    LET items == se.heap[se.self].items
        item == se.last.item
    IN  /\ se.last.op \in {"add", "append"} => items = Append(se.before, item)
        /\ se.last.op = "prepend" => items = <<item>> \o se.before
        /\ se.last.op = "insert" =>
              /\ Len(items) = Len(se.before) + 1
              /\ items[se.last.index + 1] = item
              /\ Without(items, se.last.index) = se.before
        /\ se.last.op \in {"add", "append", "prepend", "insert"} =>
              /\ se.last.outcome = "ok"
              /\ se.last.returned = se.self
        /\ Len(se.heap) = 1

\* the third call of add(A).prepend(B).insert(1, C): C stands between B and
\* A in the one Section there is, which is what the call returned
C20_Witness ==
    /\ se.last.op = "insert" /\ se.last.index = 1
    /\ se.last.item = textItem(<<"C">>, SectionOptions)
    /\ se.before = <<textItem(<<"B">>, SectionOptions), textItem(<<"A">>, SectionOptions)>>
    /\ se.heap[se.self].items
          = <<textItem(<<"B">>, SectionOptions), textItem(<<"C">>, SectionOptions),
              textItem(<<"A">>, SectionOptions)>>
    /\ se.last.returned = se.self
    /\ Len(se.heap) = 1

(***************************************************************************)
(* Properties of the Gemini schema transform.                              *)
(***************************************************************************)
\* out is in with additionalProperties and $schema removed and `type`
\* uppercased, here and in every schema under properties and items; with
\* everyType an array-valued `type` has to be uppercased too, without it
\* it has to be unchanged
RECURSIVE SchemaAdapted(_, _, _)
SchemaAdapted(in, out, everyType) ==
    IF IsFalsy(in) THEN TRUE
    ELSE /\ DOMAIN out = DOMAIN in \ {"additionalProperties", "$schema"}
         /\ \A k \in DOMAIN out :
               CASE k = "type" ->
                       IF in[k].kind = "string" \/ everyType
                       THEN /\ out[k].kind = in[k].kind
                            /\ Len(out[k].v) = Len(in[k].v)
                            /\ \A i \in 1..Len(in[k].v) :
                                  out[k].v[i] = toUpperCase(in[k].v[i])
                       ELSE out[k] = in[k]
                 [] k = "properties" ->
                       /\ DOMAIN out[k] = DOMAIN in[k]
                       /\ \A name \in DOMAIN in[k] :
                             SchemaAdapted(in[k][name], out[k][name], everyType)
                 [] k = "items" -> SchemaAdapted(in[k], out[k], everyType)
                 [] OTHER -> out[k] = in[k]

SystemMessages(msgs) ==
    SelectSeq(msgs, LAMBDA m : m.role \in {"system", "developer"})

NonSystemMessages(msgs) ==
    SelectSeq(msgs, LAMBDA m : m.role \notin {"system", "developer"})

\* the contents, each followed by a blank line, in order
RECURSIVE Joined(_)
Joined(msgs) ==
    IF msgs = <<>> THEN <<>>
    ELSE contentString(Head(msgs).content) \o <<"\n", "\n">> \o Joined(Tail(msgs))

OptText(o) == IF o = None THEN <<>> ELSE o[1]

GeminiTurn(m) ==
    [role |-> IF m.role = "assistant" THEN "model" ELSE "user",
     parts |-> <<[text |-> contentString(m.content)]>>]

\* C2: in the Anthropic and the Gemini adapter the contents of the system and
\* developer messages, concatenated in message order, are the separate system
\* field; the message list / chat history is exactly the other messages, in
\* their order, with their roles (assistant is model for Gemini).
C2_SystemMessagesExtracted ==
    /\ an.pc \in {"awaiting", "done"} =>
          LET msgs == an.call.request.messages
              rest == NonSystemMessages(msgs)
          IN  /\ OptText(an.params.system) = Trim(Joined(SystemMessages(msgs)))
              /\ Len(an.params.messages) = Len(rest)
              /\ \A i \in 1..Len(rest) :
                    /\ an.params.messages[i].role = rest[i].role
                    /\ an.params.messages[i].role \in {"user", "assistant"}
                    /\ an.params.messages[i].content = contentString(rest[i].content)
    /\ ge.pc \in {"awaiting", "done"} =>
          LET msgs == ge.call.request.messages
              rest == NonSystemMessages(msgs)
          IN  /\ OptText(ge.model.systemInstruction) = Trim(Joined(SystemMessages(msgs)))
              /\ Len(ge.sent.chatHistory) = Len(rest)
              /\ \A i \in 1..Len(rest) : ge.sent.chatHistory[i] = GeminiTurn(rest[i])
              /\ \A i \in 1..Len(ge.sent.history) :
                    ge.sent.history[i] = ge.sent.chatHistory[i]

\* a Gemini request whose developer and system messages surround the user's
C2_Witness ==
    /\ ge.pc = "awaiting"
    /\ ge.call.request.messages =
          <<Msg("developer", Str(<<" ", "b">>)), Msg("user", Str(<<"a">>)),
            Msg("system", Str(<<"a">>))>>
    /\ ge.model.systemInstruction = Some(<<"b", "\n", "\n", "a">>)
    /\ ge.sent.chatHistory = <<[role |-> "user", parts |-> <<[text |-> <<"a">>]>>]>>

\* C4: the OpenAI adapter sends the messages as they are (same length, order,
\* role and content, so a developer message stays a developer message) and
\* response_format is request.responseFormat.
C4_MessagesAsIs ==
    oa.pc \in {"awaiting", "done"} =>
       LET msgs == oa.call.request.messages
       IN  /\ Len(oa.params.messages) = Len(msgs)
           /\ \A i \in 1..Len(msgs) :
                 /\ oa.params.messages[i].role = msgs[i].role
                 /\ oa.params.messages[i].content = contentString(msgs[i].content)
           /\ oa.params.response_format = oa.call.request.responseFormat

\* C5: the Anthropic adapter sends tools and tool_choice exactly when the
\* response format is a json_schema: then one tool, named as the schema, its
\* input_schema the schema unchanged, and a tool_choice forcing that tool;
\* no responseFormat / response_format field is ever sent.
C5_ToolsIffJsonSchema ==
    an.pc \in {"awaiting", "done"} =>
       LET rf == an.call.request.responseFormat
           keys == DOMAIN an.params
           structured == IF rf = None THEN FALSE ELSE rf[1].type = "json_schema"
       IN  /\ ("tools" \in keys) <=> structured
           /\ ("tool_choice" \in keys) <=> structured
           /\ structured =>
                 /\ Len(an.params.tools) = 1
                 /\ an.params.tools[1].name = rf[1].json_schema.name
                 /\ an.params.tools[1].input_schema = rf[1].json_schema.schema
                 /\ an.params.tool_choice =
                       [type |-> "tool", name |-> rf[1].json_schema.name]
           /\ keys \cap {"responseFormat", "response_format"} = {}

\* a structured request on its way, its schema still carrying $schema
C5_Witness ==
    /\ an.pc = "awaiting"
    /\ an.call.request.responseFormat = Some(JsonSchemaFormat(None, SentSchema))
    /\ an.params.tools[1].input_schema = SentSchema
    /\ an.params.tool_choice.name = "answer"

\* C6: a structured Anthropic request that returns has as its content the
\* serialised input of a tool_use block of the response, never an empty or
\* a free-text content.
C6_StructuredContentIsToolInput ==
    (an.pc = "done" /\ an.call.request.responseFormat # None) =>
       (an.call.request.responseFormat[1].type = "json_schema" =>
           \E i \in 1..Len(an.response) :
              /\ an.response[i].type = "tool_use"
              /\ an.content = jsonStringify(an.response[i].input))

\* the text of a turn as it is passed on ('' goes out as the fallback text)
PassedAs(text, content, fallback) ==
    text = contentString(content) \/ (contentString(content) = <<>> /\ text = fallback)

\* C7: with more than one non-system message startChat gets all of them but
\* the last and sendMessage the text of the last user message; with exactly
\* one, generateContent gets that user message's text; the text passed
\* separately is the last user message and every non-system message is
\* delivered once, in the history or as the separate user turn.
C7_LastUserTurnSeparately ==
    ge.pc \in {"awaiting", "done"} =>
       LET rest == NonSystemMessages(ge.call.request.messages)
           users == SelectSeq(rest, LAMBDA m : m.role = "user")
           n == Len(rest)
           fallback == IF n > 1 THEN <<>> ELSE <<" ">>
       IN  /\ n > 1 =>
                 /\ ge.sent.method = "sendMessage"
                 /\ ge.sent.history = [i \in 1..(n - 1) |-> GeminiTurn(rest[i])]
           /\ n = 1 => ge.sent.method = "generateContent" /\ ge.sent.history = <<>>
           /\ users # <<>> =>
                 PassedAs(ge.sent.text, users[Len(users)].content, fallback)
           /\ n >= 1 =>
                 /\ Len(ge.sent.history) = n - 1
                 /\ \A i \in 1..(n - 1) :
                       ge.sent.history[i].parts[1].text = contentString(rest[i].content)
                 /\ PassedAs(ge.sent.text, rest[n].content, fallback)

(***************************************************************************)
(* Parameter substitution (items/parameters.ts, not among the sources;     *)
(* modelled from the specification, sections 3 and 6, and the usage        *)
(* guides). A text is a sequence of atoms; "{{" and "}}" are atoms of      *)
(* their own and a placeholder is "{{", an identifier, "}}" in a row.      *)
(***************************************************************************)
MaxText == 6

Names == {"k1", "k2"}

TextAtoms == {"{{", "}}", "k1", "k2", "x"}

Texts == UNION {[1..n -> TextAtoms] : n \in 0..MaxText}

StringValue(v) == [kind |-> "string", v |-> v]

NumberValue(n) == [kind |-> "number", v |-> n]

BooleanValue(b) == [kind |-> "boolean", v |-> b]

\* the Parameters objects of the model (createParameters)
ParameterMaps ==
    { NoParameters,
      [k \in {"k1"} |-> StringValue(<<"v", "w">>)],
      [k \in {"k1"} |-> NumberValue(7)],
      [k \in {"k2"} |-> BooleanValue(TRUE)],
      [k \in {"k1", "k2"} |-> IF k = "k1" THEN StringValue(<<"v">>) ELSE NumberValue(7)] }

\* String(value)
stringify(value) ==
    CASE value.kind = "string" -> value.v
      [] value.kind = "number" -> <<ToString(value.v)>>
      [] value.kind = "boolean" -> <<IF value.v THEN "true" ELSE "false">>

isPlaceholderAt(text, i) ==
    /\ i + 2 <= Len(text)
    /\ text[i] = "{{" /\ text[i + 1] \in Names /\ text[i + 2] = "}}"

RECURSIVE substituteDropsUnknown(_, _)
substituteDropsUnknown(text, parameters) ==
    IF text = <<>> THEN <<>>
    ELSE IF isPlaceholderAt(text, 1)
         THEN (IF text[2] \in DOMAIN parameters
               THEN stringify(parameters[text[2]])
               ELSE <<>>)
              \o substituteDropsUnknown(SubSeq(text, 4, Len(text)), parameters)
         ELSE <<text[1]>> \o substituteDropsUnknown(Tail(text), parameters)

\* one pass from the left: a placeholder whose key is in the map becomes the
\* stringified value, any other text is copied
RECURSIVE substitute(_, _)
substitute(text, parameters) ==
    IF text = <<>> THEN <<>>
    ELSE IF isPlaceholderAt(text, 1)
         THEN (IF text[2] \in DOMAIN parameters
               THEN stringify(parameters[text[2]])
               ELSE SubSeq(text, 1, 3))
              \o substitute(SubSeq(text, 4, Len(text)), parameters)
         ELSE <<text[1]>> \o substitute(Tail(text), parameters)

ParametersIdle(parameters) == [pc |-> "idle", parameters |-> parameters]

\* an item text is created under the Parameters object
ApplyParameters ==
    /\ pm.pc = "idle"
    /\ \E text \in Texts :
          pm' = [pc |-> "done", parameters |-> pm.parameters, text |-> text,
                 result |-> substitute(text, pm.parameters)]
    /\ UNCHANGED <<ld, an, ge, oa, sc, pa, se, mr, lg, mt, cr, pf, lp>>

\* the text is handed on; the Parameters object is reused for the next item
ParametersReused ==
    /\ pm.pc = "done"
    /\ pm' = ParametersIdle(pm.parameters)
    /\ UNCHANGED <<ld, an, ge, oa, sc, pa, se, mr, lg, mt, cr, pf, lp>>

InitParameters ==
    /\ pm \in {ParametersIdle(p) : p \in ParameterMaps}
    /\ CoreIdle
    /\ mr = Idle /\ lg = Idle /\ mt = Idle /\ cr = Idle /\ pf = Idle /\ lp = Idle

NextParameters == ApplyParameters \/ ParametersReused

SpecParameters == InitParameters /\ [][NextParameters]_vars

(***************************************************************************)
(* Claims about parameter substitution.                                    *)
(***************************************************************************)
\* the positions at which a placeholder starts; no two of them overlap
PlaceholderStarts(text) == {i \in 1..Len(text) : isPlaceholderAt(text, i)}

\* what the atom at position i of the text contributes to the result
PieceAt(text, parameters, i) ==
    LET starts == PlaceholderStarts(text)
        known(j) == j \in starts /\ text[j + 1] \in DOMAIN parameters
    IN  IF known(i) THEN stringify(parameters[text[i + 1]])
        ELSE IF known(i - 1) \/ known(i - 2) THEN <<>>
        ELSE <<text[i]>>

RECURSIVE Pieces(_, _, _)
Pieces(text, parameters, i) ==
    IF i > Len(text) THEN <<>>
    ELSE PieceAt(text, parameters, i) \o Pieces(text, parameters, i + 1)

MaxConfigs == 2

ModelNames == {"o1", "o3-mini", "gpt-4", "gpt-4o", "claude-3-opus", "llama-3",
               "my-local-llama", "mistral"}

PersonaRoles == {"system", "developer"}

PatOSeries == "^o\\d"

PatGpt4 == "^gpt-4"

PatClaude == "^claude"

PatLlama == "^llama-\\d+"

PatGpt == "^gpt"

\* RegExp.test(model)
patternTest(pattern, model) ==
    CASE pattern = PatOSeries -> model \in {"o1", "o3-mini"}
      [] pattern = PatGpt4 -> model \in {"gpt-4", "gpt-4o"}
      [] pattern = PatClaude -> model = "claude-3-opus"
      [] pattern = PatLlama -> model = "llama-3"
      [] pattern = PatGpt -> model \in {"gpt-4", "gpt-4o"}

ExactConfig(model, role) == [exactMatch |-> model, personaRole |-> role]

PatternConfig(pattern, role) == [pattern |-> pattern, personaRole |-> role]

\* the mappings every registry starts with
DefaultModelConfigs ==
    << PatternConfig(PatOSeries, "developer"),
       PatternConfig(PatGpt4, "system"),
       PatternConfig(PatClaude, "system") >>

\* the mapping of a model that nothing matches
DefaultConfig == [family |-> "unknown", personaRole |-> "system"]

\* what configureModel is called with
CustomConfigs ==
    {ExactConfig(m, r) : m \in {"gpt-4", "o1", "my-local-llama"}, r \in PersonaRoles}
      \cup {PatternConfig(q, r) : q \in {PatLlama, PatGpt}, r \in PersonaRoles}

isExactFor(config, model) ==
    "exactMatch" \in DOMAIN config /\ config.exactMatch = model

isPatternFor(config, model) ==
    "pattern" \in DOMAIN config /\ patternTest(config.pattern, model)

\* the first config of the list that the test accepts, or the fallback
firstConfig(configs, Test(_), fallback) ==
    LET hits == {i \in 1..Len(configs) : Test(configs[i])}
    IN  IF hits = {} THEN fallback
        ELSE configs[CHOOSE i \in hits : \A j \in hits : i <= j]

getConfigPatternFirst(configs, model) ==
    firstConfig(configs, LAMBDA c : isPatternFor(c, model),
       firstConfig(configs, LAMBDA c : isExactFor(c, model), DefaultConfig))

\* exact-match override, then pattern match, then the default
getConfig(configs, model) ==
    firstConfig(configs, LAMBDA c : isExactFor(c, model),
       firstConfig(configs, LAMBDA c : isPatternFor(c, model), DefaultConfig))

getPersonaRole(configs, model) ==
    getConfig(configs, model).personaRole

\* a registration goes in front of the ones made before it
register(configs, config) ==
    <<config>> \o configs

RegistryIdle(configs) == [pc |-> "idle", configs |-> configs]

ConfigureModel ==
    /\ mr.pc \in {"idle", "done"}
    /\ Len(mr.configs) < Len(DefaultModelConfigs) + MaxConfigs
    /\ \E config \in CustomConfigs :
          mr' = RegistryIdle(register(mr.configs, config))
    /\ UNCHANGED <<ld, an, ge, oa, sc, pa, se, pm, lg, mt, cr, pf, lp>>

GetPersonaRole ==
    /\ mr.pc \in {"idle", "done"}
    /\ \E model \in ModelNames :
          mr' = [pc |-> "done", configs |-> mr.configs, model |-> model,
                 role |-> getPersonaRole(mr.configs, model)]
    /\ UNCHANGED <<ld, an, ge, oa, sc, pa, se, pm, lg, mt, cr, pf, lp>>

InitRegistry ==
    /\ mr = RegistryIdle(DefaultModelConfigs)
    /\ CoreIdle
    /\ pm = Idle /\ lg = Idle /\ mt = Idle /\ cr = Idle /\ pf = Idle /\ lp = Idle

NextRegistry == ConfigureModel \/ GetPersonaRole

SpecRegistry == InitRegistry /\ [][NextRegistry]_vars

(***************************************************************************)
(* Claims about the model registry.                                        *)
(***************************************************************************)
RolesOf(configs, Test(_)) ==
    {configs[i].personaRole : i \in {j \in 1..Len(configs) : Test(configs[j])}}

\* C22: the persona role of a model is that of an exact-match entry when
\* there is one, also when a pattern matches the model; otherwise that of a
\* matching pattern (developer for the o-series, system for gpt-4 and
\* claude under the default mappings); otherwise the default mapping's. The
\* lookup never raises.
C22_ExactThenPatternThenDefault ==
    mr.pc = "done" =>
       LET exact == RolesOf(mr.configs, LAMBDA c : isExactFor(c, mr.model))
           byPattern == RolesOf(mr.configs, LAMBDA c : isPatternFor(c, mr.model))
           custom == SubSeq(mr.configs, 1, Len(mr.configs) - Len(DefaultModelConfigs))
           touched == \E i \in 1..Len(custom) :
                         isExactFor(custom[i], mr.model) \/ isPatternFor(custom[i], mr.model)
       IN  /\ mr.role \in PersonaRoles
           /\ exact # {} => mr.role \in exact
           /\ (exact = {} /\ byPattern # {}) => mr.role \in byPattern
           /\ (exact = {} /\ byPattern = {}) => mr.role = DefaultConfig.personaRole
           /\ ~touched =>
                 /\ mr.model \in {"o1", "o3-mini"} => mr.role = "developer"
                 /\ mr.model \in {"gpt-4", "gpt-4o", "claude-3-opus"} => mr.role = "system"

\* gpt-4 has an exact entry with the developer role while two patterns, the
\* default one and a registered one, give it the system role
C22_Witness ==
    /\ mr.pc = "done"
    /\ mr.model = "gpt-4"
    /\ mr.configs = <<PatternConfig(PatGpt, "system"), ExactConfig("gpt-4", "developer")>>
                       \o DefaultModelConfigs
    /\ mr.role = "developer"

(***************************************************************************)
(* Logger (src/logger.ts). The environment is read once, when the module   *)
(* is loaded; a logger is its kind and its name, and the output is what    *)
(* the backing logger has been handed.                                     *)
(***************************************************************************)
MaxLoggerDepth == 2
MaxOutput == 1

Unset == "undefined"

LoggingValues == {Unset, "true", "1"}

DebugValues == {Unset, "riotprompt", "app,riotprompt:*", "*"}

NodeEnvValues == {Unset, "development", "production"}

Environments ==
    [RIOTPROMPT_LOGGING : LoggingValues, DEBUG : DebugValues, NODE_ENV : NodeEnvValues]

Levels == {"debug", "info", "warn", "error", "verbose", "silly"}

\* String.prototype.includes('riotprompt') on the values of the model
includesRiotprompt(value) == value \in {"riotprompt", "app,riotprompt:*"}

isLoggingEnabledAnyDebug(env) ==
    \/ env.RIOTPROMPT_LOGGING = "true"
    \/ env.DEBUG # Unset
    \/ env.NODE_ENV = "development"

isLoggingEnabled(env) ==
    \/ env.RIOTPROMPT_LOGGING = "true"
    \/ (env.DEBUG # Unset /\ includesRiotprompt(env.DEBUG))
    \/ env.NODE_ENV = "development"

createSilentLogger(name) == [kind |-> "silent", name |-> name]

SILENT_LOGGER == createSilentLogger(<<"silent">>)

FJELL_LOGGER == [kind |-> "fjell", name |-> <<"fjell">>]

DEFAULT_LOGGER(env) == IF isLoggingEnabled(env) THEN FJELL_LOGGER ELSE SILENT_LOGGER

\* logger.get(component)
getChild(logger, component) ==
    IF logger.kind = "silent"
    THEN createSilentLogger(logger.name \o <<component>>)
    ELSE [kind |-> "fjell",
          name |-> IF logger = FJELL_LOGGER THEN <<component>>
                   ELSE logger.name \o <<component>>]

\* the level the backing logger is called with
fjellLevel(level) ==
    CASE level = "warn" -> "warning"
      [] level \in {"verbose", "silly"} -> "debug"
      [] OTHER -> level

\* what a call of a level method hands to the backing logger
emitted(logger, level) ==
    IF logger.kind = "silent" THEN <<>>
    ELSE <<[level |-> fjellLevel(level), name |-> logger.name]>>

\* the module is loaded: DEFAULT_LOGGER is chosen
LoadLogger ==
    /\ lg.pc = "unloaded"
    /\ lg' = [pc |-> "loaded", env |-> lg.env, envAtLoad |-> lg.env,
              DEFAULT_LOGGER |-> DEFAULT_LOGGER(lg.env),
              logger |-> DEFAULT_LOGGER(lg.env), output |-> <<>>, called |-> Unset]
    /\ UNCHANGED <<ld, an, ge, oa, sc, pa, se, pm, mr, mt, cr, pf, lp>>

\* the program changes process.env
SetEnv ==
    /\ lg.pc = "loaded"
    /\ \E env \in Environments :
          /\ env # lg.env
          /\ Cardinality({k \in DOMAIN env : env[k] # lg.env[k]}) = 1
          /\ lg' = [lg EXCEPT !.env = env]
    /\ UNCHANGED <<ld, an, ge, oa, sc, pa, se, pm, mr, mt, cr, pf, lp>>

\* logger.get('Loader') on the logger at hand
LoggerGet ==
    /\ lg.pc = "loaded"
    /\ Len(lg.logger.name) <= MaxLoggerDepth
    /\ lg' = [lg EXCEPT !.logger = getChild(lg.logger, "Loader")]
    /\ UNCHANGED <<ld, an, ge, oa, sc, pa, se, pm, mr, mt, cr, pf, lp>>

\* back to DEFAULT_LOGGER
LoggerDefault ==
    /\ lg.pc = "loaded"
    /\ lg.logger # lg.DEFAULT_LOGGER
    /\ lg' = [lg EXCEPT !.logger = lg.DEFAULT_LOGGER]
    /\ UNCHANGED <<ld, an, ge, oa, sc, pa, se, pm, mr, mt, cr, pf, lp>>

\* one of the six level methods of the logger at hand is called
LoggerLog ==
    /\ lg.pc = "loaded"
    /\ Len(lg.output) < MaxOutput
    /\ \E level \in Levels :
          lg' = [lg EXCEPT !.output = @ \o emitted(lg.logger, level),
                           !.called = level]
    /\ UNCHANGED <<ld, an, ge, oa, sc, pa, se, pm, mr, mt, cr, pf, lp>>

InitLogger ==
    /\ lg \in {[pc |-> "unloaded", env |-> env] : env \in Environments}
    /\ CoreIdle
    /\ pm = Idle /\ mr = Idle /\ mt = Idle /\ cr = Idle /\ pf = Idle /\ lp = Idle

NextLogger == LoadLogger \/ SetEnv \/ LoggerGet \/ LoggerDefault \/ LoggerLog

SpecLogger == InitLogger /\ [][NextLogger]_vars

(***************************************************************************)
(* Claims about the logger.                                                *)
(***************************************************************************)
\* none of the three switches is on
SwitchedOff(env) ==
    /\ env.RIOTPROMPT_LOGGING # "true"
    /\ env.DEBUG \notin {"riotprompt", "app,riotprompt:*"}
    /\ env.NODE_ENV # "development"

ScaffoldCalls == 5

WorkingDirectory == "w"

PromptName == "p"

BasePaths == {WorkingDirectory, "o"}

pathResolve(base, name) == <<base, name>>

pathJoin(path, name) == path \o <<name>>

Targets == {pathResolve(b, PromptName) : b \in BasePaths}

FsPaths ==
    UNION {{t, pathJoin(t, "persona.md"), pathJoin(t, "instructions.md"),
            pathJoin(t, "context"), pathJoin(pathJoin(t, "context"), "README.md")}
           : t \in Targets}

Absent == [kind |-> "absent"]

Dir == [kind |-> "dir"]

RegularFile(content) == [kind |-> "file", content |-> content]

EmptyFs == [path \in FsPaths |-> Absent]

DefaultPersona == "You are a helpful AI assistant."

DefaultInstructions == "Please analyze the following request."

ContextReadme == "Place context files (json, md, txt) in this directory."

\* the files a prompt can be imported from: their extension, whether they
\* can be read and whether the Serializer accepts their content
ImportFiles ==
    { [name |-> "in.json", ext |-> "json", readable |-> TRUE, valid |-> TRUE],
      [name |-> "bad.json", ext |-> "json", readable |-> TRUE, valid |-> FALSE],
      [name |-> "in.xml", ext |-> "xml", readable |-> TRUE, valid |-> TRUE],
      [name |-> "in.txt", ext |-> "txt", readable |-> TRUE, valid |-> TRUE],
      [name |-> "gone.json", ext |-> "json", readable |-> FALSE, valid |-> FALSE] }

Mkdir(path, recursive) == [op |-> "mkdir", path |-> path, recursive |-> recursive]

WriteFile(path, data) == [op |-> "writeFile", path |-> path, data |-> data]

Threw(fs, message) == [threw |-> TRUE, fs |-> fs, message |-> message]

Returned(fs) == [threw |-> FALSE, fs |-> fs]

\* the directory that holds the path exists (the base paths always do)
parentIsDir(fs, path) ==
    Len(path) = 2 \/ fs[SubSeq(path, 1, Len(path) - 1)] = Dir

\* fs.mkdir and fs.writeFile
fsCall(fs, call) ==
    IF call.op = "mkdir"
    THEN IF fs[call.path] = Dir /\ call.recursive THEN Returned(fs)
         ELSE IF fs[call.path] # Absent THEN Threw(fs, <<"EEXIST">>)
         ELSE IF ~parentIsDir(fs, call.path) THEN Threw(fs, <<"ENOENT">>)
         ELSE Returned([fs EXCEPT ![call.path] = Dir])
    ELSE IF ~parentIsDir(fs, call.path) THEN Threw(fs, <<"ENOENT">>)
         ELSE IF fs[call.path] = Dir THEN Threw(fs, <<"EISDIR">>)
         ELSE Returned([fs EXCEPT ![call.path] = RegularFile(call.data)])

\* the calls one after the other, up to the first that throws
RECURSIVE fsCalls(_, _, _, _)
fsCalls(fs, calls, i, failAt) ==
    IF i > Len(calls) THEN Returned(fs)
    ELSE IF i = failAt THEN Threw(fs, <<"EACCES">>)
    ELSE LET r == fsCall(fs, calls[i])
         IN  IF r.threw THEN r ELSE fsCalls(r.fs, calls, i + 1, failAt)

\* fs.access succeeded
fileExists(fs, path) ==
    fs[path] # Absent

\* a || b on strings
Either(a, b) == IF a \in {Unset, ""} THEN b ELSE a

\* scaffold mode
scaffoldCalls(fullPath, personaText, instructionsText, createContext) ==
    << Mkdir(fullPath, TRUE),
       WriteFile(pathJoin(fullPath, "persona.md"), personaText),
       WriteFile(pathJoin(fullPath, "instructions.md"), instructionsText) >>
      \o (IF createContext
          THEN << Mkdir(pathJoin(fullPath, "context"), FALSE),
                  WriteFile(pathJoin(pathJoin(fullPath, "context"), "README.md"),
                            ContextReadme) >>
          ELSE <<>>)

\* Writer.saveToDirectory(prompt, fullPath)
saveToDirectoryCalls(fullPath, file) ==
    << Mkdir(fullPath, TRUE),
       WriteFile(pathJoin(fullPath, "persona.md"), file.name),
       WriteFile(pathJoin(fullPath, "instructions.md"), file.name) >>

AlreadyExists(fullPath) == <<"Directory", fullPath, "already exists.">>

Failure(fs, error) == [fs |-> fs, result |-> [success |-> FALSE, error |-> error]]

Success(fs, data, message) ==
    [fs |-> fs, result |-> [success |-> TRUE, data |-> data, message |-> message]]

\* import mode: the file is read and parsed before anything is written
importPrompt(fs, fullPath, file, failAt) ==
    IF ~file.readable THEN Threw(fs, <<"ENOENT">>)
    ELSE IF file.ext \in {"json", "xml"} /\ ~file.valid THEN Threw(fs, <<"invalid prompt">>)
    ELSE IF file.ext \notin {"json", "xml"} THEN Threw(fs, <<"Unsupported file extension. Use .json or .xml">>)
    ELSE fsCalls(fs, saveToDirectoryCalls(fullPath, file), 1, failAt)

executeCreateOverExisting(args, context, fs, failAt) ==
    IF args = None THEN Failure(fs, <<"TypeError">>)
    ELSE
    LET basePath == Either(args[1].path, context.workingDirectory)
        fullPath == pathResolve(basePath, args[1].promptName)
        createContext == args[1].createContext # Some(FALSE)
        r == fsCalls(fs, scaffoldCalls(fullPath, Either(args[1].persona, DefaultPersona),
                                       Either(args[1].instructions, DefaultInstructions),
                                       createContext), 1, failAt)
    IN  IF r.threw THEN Failure(r.fs, r.message)
        ELSE Success(r.fs, [path |-> fullPath], <<"created">>)

\* executeCreate of the MCP tool; args is None for a call without arguments
executeCreate(args, context, fs, failAt) ==
    IF args = None THEN Failure(fs, <<"TypeError">>)
    ELSE
    LET basePath == Either(args[1].path, context.workingDirectory)
        fullPath == pathResolve(basePath, args[1].promptName)
        createContext == args[1].createContext # Some(FALSE)
    IN  IF fileExists(fs, fullPath) THEN Failure(fs, AlreadyExists(fullPath))
        ELSE IF args[1].importFile # None
        THEN LET r == importPrompt(fs, fullPath, args[1].importFile[1], failAt)
             IN  IF r.threw
                 THEN Failure(r.fs, r.message)
                 ELSE Success(r.fs, [path |-> fullPath, imported |-> TRUE,
                                     source |-> args[1].importFile[1].name], <<"imported">>)
        ELSE LET r == fsCalls(fs, scaffoldCalls(fullPath,
                                     Either(args[1].persona, DefaultPersona),
                                     Either(args[1].instructions, DefaultInstructions),
                                     createContext), 1, failAt)
             IN  IF r.threw
                 THEN Failure(r.fs, r.message)
                 ELSE Success(r.fs,
                         [path |-> fullPath,
                          files |-> <<"persona.md", "instructions.md">>
                                      \o (IF createContext THEN <<"context/">> ELSE <<>>)],
                         <<"created">>)

Exit(fs, code, stderr) == [fs |-> fs, result |-> [exit |-> code, stderr |-> stderr]]

\* createAction of the command line; process.exit(1) ends the process
createAction(promptName, options, fs, failAt) ==
    LET basePath == pathResolve(options.path, promptName)
    IN  IF fileExists(fs, basePath) THEN Exit(fs, 1, AlreadyExists(basePath))
        ELSE LET r == IF options.import # None
                      THEN importPrompt(fs, basePath, options.import[1], failAt)
                      ELSE fsCalls(fs, scaffoldCalls(basePath,
                                         Either(options.persona, DefaultPersona),
                                         Either(options.instructions, DefaultInstructions),
                                         options.context), 1, failAt)
             IN  IF r.threw THEN Exit(r.fs, 1, r.message) ELSE Exit(r.fs, 0, <<>>)

\* the arguments of riotprompt_create
CreateArgs ==
    [promptName : {PromptName}, path : {Unset, "o"}, persona : {Unset, "P"},
     instructions : {Unset, "I"}, createContext : {None, Some(TRUE), Some(FALSE)},
     importFile : {None} \cup {Some(f) : f \in ImportFiles}]

\* the options of `riotprompt create`; --path defaults to the current directory
CreateOptions ==
    [path : BasePaths, persona : {Unset, "P"}, instructions : {Unset, "I"},
     context : BOOLEAN, import : {None} \cup {Some(f) : f \in ImportFiles}]

ToolContext == [workingDirectory |-> WorkingDirectory]

\* what may be at the paths before the first call
InitialFileSystems ==
    { EmptyFs,
      [EmptyFs EXCEPT ![pathResolve(WorkingDirectory, PromptName)] = RegularFile("old")],
      [EmptyFs EXCEPT ![pathResolve(WorkingDirectory, PromptName)] = Dir,
                      ![pathJoin(pathResolve(WorkingDirectory, PromptName), "persona.md")]
                           = RegularFile("old")] }

CreateIdle(fs) == [pc |-> "idle", fs |-> fs]

CreateDone(fs, via, target, call, failAt, r) ==
    [pc |-> "done", fs |-> r.fs, before |-> fs, via |-> via, target |-> target,
     call |-> call, failAt |-> failAt, result |-> r.result]

McpCreate ==
    /\ cr.pc = "idle"
    /\ \E args \in CreateArgs, failAt \in 0..ScaffoldCalls :
          cr' = CreateDone(cr.fs, "mcp",
                   pathResolve(Either(args.path, ToolContext.workingDirectory),
                               args.promptName),
                   args, failAt, executeCreate(Some(args), ToolContext, cr.fs, failAt))
    /\ UNCHANGED <<ld, an, ge, oa, sc, pa, se, pm, mr, lg, mt, pf, lp>>

CliCreate ==
    /\ cr.pc = "idle"
    /\ \E options \in CreateOptions, failAt \in 0..ScaffoldCalls :
          cr' = CreateDone(cr.fs, "cli", pathResolve(options.path, PromptName),
                   options, failAt, createAction(PromptName, options, cr.fs, failAt))
    /\ UNCHANGED <<ld, an, ge, oa, sc, pa, se, pm, mr, lg, mt, pf, lp>>

\* the result is delivered; the files stay
CreateSettled ==
    /\ cr.pc = "done"
    /\ cr' = CreateIdle(cr.fs)
    /\ UNCHANGED <<ld, an, ge, oa, sc, pa, se, pm, mr, lg, mt, pf, lp>>

InitCreate ==
    /\ cr \in {CreateIdle(fs) : fs \in InitialFileSystems}
    /\ CoreIdle
    /\ pm = Idle /\ mr = Idle /\ lg = Idle /\ mt = Idle /\ pf = Idle /\ lp = Idle

NextCreate == McpCreate \/ CliCreate \/ CreateSettled

SpecCreate == InitCreate /\ [][NextCreate]_vars

(***************************************************************************)
(* Claims about prompt creation.                                           *)
(***************************************************************************)
\* the paths at and below a target
Under(target) ==
    {path \in FsPaths : Len(path) >= Len(target) /\ SubSeq(path, 1, Len(target)) = target}

RefusedAsExisting(result, via, target) ==
    IF via = "mcp"
    THEN result = [success |-> FALSE, error |-> AlreadyExists(target)]
    ELSE result = [exit |-> 1, stderr |-> AlreadyExists(target)]

\* C25: a create whose target <path>/<promptName> exists when it is called
\* fails with 'Directory ... already exists.' and leaves every file and
\* directory as it was; persona.md, instructions.md and context/README.md
\* are written only when the target did not exist.
C25_CreateNeverOverwrites ==
    cr.pc = "done" =>
       /\ fileExists(cr.before, cr.target) =>
             /\ cr.fs = cr.before
             /\ RefusedAsExisting(cr.result, cr.via, cr.target)
       /\ cr.fs # cr.before =>
             /\ ~fileExists(cr.before, cr.target)
             /\ \A path \in FsPaths : cr.fs[path] # cr.before[path] => path \in Under(cr.target)

\* a second create over the prompt that a first one had scaffolded
C25_Witness ==
    /\ cr.pc = "done"
    /\ cr.via = "mcp"
    /\ cr.target = pathResolve("o", PromptName)
    /\ cr.call.persona = "P"
    /\ cr.before[pathJoin(cr.target, "persona.md")] = RegularFile(DefaultPersona)
    /\ cr.before[pathJoin(pathJoin(cr.target, "context"), "README.md")]
          = RegularFile(ContextReadme)
    /\ cr.fs = cr.before
    /\ cr.result.success = FALSE

(***************************************************************************)
(* The MCP tool executor (src/mcp/tools/index.ts) and its four handlers.   *)
(* What the body of a handler meets (the prompt path, the package file,    *)
(* the provider) is an input: the body returns or an Error is thrown in    *)
(* it. A thrown Error is given by its message, '' for one without.         *)
(***************************************************************************)
ToolNames ==
    {"riotprompt_get_version", "riotprompt_create", "riotprompt_process",
     "riotprompt_execute"}

\* the names executeTool is called with
CalledNames == ToolNames \cup {"riotprompt_delete", ""}

ErrorValues == {[message |-> <<"ENOENT">>], [message |-> <<>>]}

\* what a handler body meets: thrown is None or Some(error)
Worlds ==
    [promptPath : {"missing", "directory", "prompt.json", "prompt.txt"},
     thrown : {None} \cup {Some(x) : x \in ErrorValues}]

returns(value) == [threw |-> FALSE, value |-> value]

throws(value) == [threw |-> TRUE, value |-> value]

\* error.message || fallback
messageOr(error, fallback) == IF error.message = <<>> THEN fallback ELSE error.message

executeGetVersion(world) ==
    IF world.thrown # None
    THEN returns([success |-> FALSE, error |-> world.thrown[1].message])
    ELSE returns([success |-> TRUE, data |-> [name |-> "riotprompt"],
                  message |-> <<"riotprompt">>])

\* the part executeProcess and executeExecute share: the prompt is loaded
promptLoaded(args, world) ==
    IF args = None THEN throws([message |-> <<"TypeError">>])
    ELSE IF world.promptPath = "missing"
    THEN returns([success |-> FALSE, error |-> <<"Prompt path not found at", args[1].promptPath>>])
    ELSE IF world.thrown # None THEN throws(world.thrown[1])
    ELSE IF world.promptPath = "prompt.txt"
    THEN returns([success |-> FALSE, error |-> <<"Supported file formats are .json and .xml">>])
    ELSE returns(None)

executeProcess(args, world) ==
    LET r == promptLoaded(args, world)
    IN  IF r.threw THEN returns([success |-> FALSE, error |-> r.value.message])
        ELSE IF r.value # None THEN r
        ELSE returns([success |-> TRUE, data |-> [format |-> "text"],
                      message |-> <<"Prompt processed successfully">>])

executeExecute(args, world) ==
    LET r == promptLoaded(args, world)
    IN  IF r.threw
        THEN returns([success |-> FALSE,
                      error |-> messageOr(r.value, <<"Unknown error during execution">>)])
        ELSE IF r.value # None THEN r
        ELSE returns([success |-> TRUE, data |-> [model |-> "gpt-4"],
                      message |-> <<"Prompt executed successfully">>])

UnknownTool(toolName) == [success |-> FALSE, error |-> <<"Unknown tool:", toolName>>]

\* the switch of executeTool
route(toolName, args, context, world, fs) ==
    CASE toolName = "riotprompt_get_version" -> executeGetVersion(world)
      [] toolName = "riotprompt_create" ->
            returns(executeCreate(args, context, fs, 0).result)
      [] toolName = "riotprompt_process" -> executeProcess(args, world)
      [] toolName = "riotprompt_execute" -> executeExecute(args, world)
      [] OTHER -> returns(UnknownTool(toolName))

executeToolThrowsUnknown(toolName, args, context, world, fs) ==
    IF toolName \notin ToolNames THEN throws([message |-> <<"Unknown tool:", toolName>>])
    ELSE route(toolName, args, context, world, fs)

\* executeTool: what the switch throws is caught
executeTool(toolName, args, context, world, fs) ==
    LET r == route(toolName, args, context, world, fs)
    IN  IF r.threw
        THEN returns([success |-> FALSE, error |-> messageOr(r.value, <<"Unknown error">>),
                      details |-> [stderr |-> Unset, stdout |-> Unset]])
        ELSE r

\* the arguments of the call: none, or those of the tool
ToolArgs(toolName) ==
    {None} \cup
      (IF toolName = "riotprompt_create"
       THEN {Some(a) : a \in {b \in CreateArgs : b.instructions = Unset}}
       ELSE {Some([promptPath |-> "prompts/p"])})

ExecuteTool ==
    /\ mt.pc = "idle"
    /\ \E toolName \in CalledNames, world \in Worlds, fs \in InitialFileSystems :
          \E args \in ToolArgs(toolName) :
             mt' = [pc |-> "done", toolName |-> toolName, args |-> args,
                    world |-> world, fs |-> fs,
                    promise |-> executeTool(toolName, args, ToolContext, world, fs)]
    /\ UNCHANGED <<ld, an, ge, oa, sc, pa, se, pm, mr, lg, cr, pf, lp>>

\* the server has sent the result
ToolSettled ==
    /\ mt.pc = "done"
    /\ mt' = Idle
    /\ UNCHANGED <<ld, an, ge, oa, sc, pa, se, pm, mr, lg, cr, pf, lp>>

InitTools ==
    /\ mt = Idle
    /\ CoreIdle
    /\ pm = Idle /\ mr = Idle /\ lg = Idle /\ cr = Idle /\ pf = Idle /\ lp = Idle

NextTools == ExecuteTool \/ ToolSettled

SpecTools == InitTools /\ [][NextTools]_vars

(***************************************************************************)
(* Claims about the MCP tool executor.                                     *)
(***************************************************************************)
\* the Error thrown inside the handler of the call, None when none was
ThrownInHandler ==
    IF mt.toolName \notin ToolNames THEN None
    ELSE IF mt.args = None /\ mt.toolName # "riotprompt_get_version"
    THEN Some([message |-> <<"TypeError">>])
    ELSE IF mt.toolName = "riotprompt_create"
    THEN (IF /\ ~fileExists(mt.fs, pathResolve(Either(mt.args[1].path, WorkingDirectory), PromptName))
             /\ mt.args[1].importFile # None
             /\ ~mt.args[1].importFile[1].readable
          THEN Some([message |-> <<"ENOENT">>]) ELSE None)
    ELSE IF mt.toolName # "riotprompt_get_version" /\ mt.world.promptPath = "missing" THEN None
    ELSE mt.world.thrown

MaxProxyCalls == 4

ProxyCallers == {1, 2}

NotCalling == [pc |-> "idle"]

\* finally: globalThis.fetch = originalFetch
restore(frame, fetch) ==
    frame.originalFetch

\* lines 46-49: the function is saved and replaced, the callback starts
WithProxyFetchStart(c) ==
    /\ pf.frames[c].pc = "idle"
    /\ pf.calls < MaxProxyCalls
    /\ pf' = [pf EXCEPT
          !.frames[c] = [pc |-> "awaiting", originalFetch |-> pf.fetch],
          !.fetch = createProxyFetch(pf.calls + 1),
          !.calls = @ + 1,
          !.before = IF \A d \in ProxyCallers : pf.frames[d].pc = "idle"
                     THEN pf.fetch ELSE @]
    /\ UNCHANGED <<ld, an, ge, oa, sc, pa, se, pm, mr, lg, mt, cr, lp>>

\* lines 49-52: the callback resolved or rejected
WithProxyFetchFinish(c) ==
    /\ pf.frames[c].pc = "awaiting"
    /\ \E outcome \in {"resolved", "rejected"} :
          pf' = [pf EXCEPT
             !.frames[c] = NotCalling,
             !.fetch = restore(pf.frames[c], pf.fetch),
             !.settled = outcome]
    /\ UNCHANGED <<ld, an, ge, oa, sc, pa, se, pm, mr, lg, mt, cr, lp>>

InitProxy ==
    /\ pf = [fetch |-> NativeFetch, frames |-> [c \in ProxyCallers |-> NotCalling],
             calls |-> 0, before |-> NativeFetch, settled |-> "none"]
    /\ CoreIdle
    /\ pm = Idle /\ mr = Idle /\ lg = Idle /\ mt = Idle /\ cr = Idle /\ lp = Idle

NextProxy == \E c \in ProxyCallers : WithProxyFetchStart(c) \/ WithProxyFetchFinish(c)

SpecProxy == InitProxy /\ [][NextProxy]_vars

(***************************************************************************)
(* Claims about withProxyFetch.                                            *)
(***************************************************************************)
\* C26: once every call of withProxyFetch that has started has finished,
\* globalThis.fetch is the function it was before the first of those calls
\* started, also when calls overlap.
C26_FetchRestored ==
    (pf.calls > 0 /\ \A c \in ProxyCallers : pf.frames[c].pc = "idle") =>
       pf.fetch = pf.before

(***************************************************************************)
(* Claims about the system field of the Anthropic and the Gemini adapter.  *)
(***************************************************************************)
\* the system/developer contents, each followed by a blank line, trimmed
SystemText(request) == Trim(anthropicSplit(request.messages, <<>>, <<>>).systemPrompt)

\* the field as the claim describes it: the text, or undefined for no text
SystemField(request) ==
    IF SystemText(request) # <<>> THEN Some(SystemText(request)) ELSE None

\* C27: for every request the Anthropic `system` value and the Gemini
\* `systemInstruction` value agree: both are the trimmed concatenation of
\* the system/developer contents when that text is non-empty and both are
\* undefined otherwise; neither adapter sends an empty string, also when a
\* system message has an empty or whitespace-only content.
C27_SystemFieldsAgree ==
    /\ an.pc \in {"awaiting", "done"} =>
          /\ an.params.system = SystemField(an.call.request)
          /\ an.params.system
                = geminiModel(an.call.request, an.call.options).systemInstruction
    /\ ge.pc \in {"awaiting", "done"} =>
          /\ ge.model.systemInstruction = SystemField(ge.call.request)
          /\ ge.model.systemInstruction
                = anthropicParams(ge.call.request, ge.call.options).system

(***************************************************************************)
(* Claims about the API key of the provider adapters.                      *)
(***************************************************************************)
\* the state of an adapter whose execute was called without any key: it
\* failed with the provider's message and holds no client and no request
FailedForKey(state, provider, fields) ==
    /\ state.pc = "failed"
    /\ state.error = provider
    /\ DOMAIN state = {"pc", "call", "error"} \cup fields

KeyChecked(state, provider, fields) ==
    state.pc # "idle" =>
       /\ (state.call.options.apiKey = None /\ state.call.envKey = None)
             => FailedForKey(state, provider, fields)
       /\ (state.call.options.apiKey # None /\ state.pc = "awaiting")
             => state.apiKey = state.call.options.apiKey
       /\ (state.call.options.apiKey = None /\ state.call.envKey # None
             /\ state.pc = "awaiting") => state.apiKey = state.call.envKey

\* C28: in the OpenAI, the Anthropic and the Gemini adapter execute with no
\* options.apiKey and no API-key environment variable fails with
\* '<Provider> API key is required' before a client is constructed, a
\* request is issued or (Gemini) globalThis.fetch is replaced; a given
\* options.apiKey takes precedence over the environment variable.
C28_ApiKeyRequired ==
    /\ KeyChecked(oa, "OpenAI API key is required", {})
    /\ KeyChecked(an, "Anthropic API key is required", {})
    /\ KeyChecked(ge, "Gemini API key is required", {"fetch"})
    /\ (ge.pc = "failed" => ge.fetch = NativeFetch)

\* a Gemini execute behind a proxy and without any key
C28_Witness ==
    /\ ge.pc = "failed"
    /\ ge.call.options.apiKey = None /\ ge.call.envKey = None
    /\ ge.call.proxyUrl # None
    /\ ge.error = "Gemini API key is required"
    /\ ge.fetch = NativeFetch

(***************************************************************************)
(* loadPromptFromDirectory (src/cli.ts; the MCP process and execute tools  *)
(* hold the same function). A prompt directory is what is found at         *)
(* persona, instructions and context: for each the directory of that name  *)
(* (None when there is none) and the .md file of that name: absent, a file *)
(* that can be read, or an entry that fs.access finds and fs.readFile      *)
(* fails on.                                                               *)
(***************************************************************************)
PromptRoot == <<"prompt">>

\* a directory that loads, and one whose listing fails
PartDirectories(name) ==
    { [path |-> <<PromptRoot, <<name>>>>, entries |-> <<FileA, FileHidden>>, fail |-> "none"],
      [path |-> <<PromptRoot, <<name>>>>, entries |-> <<FileA, FileHidden>>, fail |-> "listFiles"] }

PartFiles == {"absent", "file", "unreadable"}

PromptDirectories ==
    [persona : [dir : {None} \cup {Some(d) : d \in PartDirectories("persona")},
                file : PartFiles],
     instructions : [dir : {None} \cup {Some(d) : d \in PartDirectories("instructions")},
                     file : PartFiles],
     context : [dir : {None} \cup {Some(d) : d \in PartDirectories("context")},
                file : {"absent"}]]

InstructionsRequired == <<"instructions (directory or .md file) is required.">>

\* Loader.create().load([dir])
loaderLoad(dir) ==
    LET r == processDirectory(dir, DEFAULT_IGNORE_PATTERNS,
                              loadOptions(NoParameters, [parameters |-> NoParameters]))
    IN  IF r.threw THEN <<>> ELSE <<r.section>>

\* createSection({ title }) with every loaded Section added
RECURSIVE sectionOf(_, _)
sectionOf(section, sections) ==
    IF sections = <<>> THEN section
    ELSE sectionOf(add(section, Head(sections)), Tail(sections))

titled(title) ==
    createSection(withTitle([parameters |-> NoParameters], <<title>>))

\* RiotPrompt.createInstruction(content)
createInstruction(name) ==
    textItem(<<name, ".", "md">>, [parameters |-> NoParameters])

\* one of the three blocks: the directory, else the file when there is one
loadPart(part, title, name, withFile) ==
    IF part.dir # None
    THEN LET sections == loaderLoad(part.dir[1])
         IN  IF Len(sections) > 0
             THEN returns(Some(sectionOf(titled(title), sections)))
             ELSE returns(None)
    ELSE IF withFile /\ part.file # "absent"
    THEN (IF part.file = "unreadable" THEN throws(<<"EISDIR">>)
          ELSE returns(Some(add(titled(title), createInstruction(name)))))
    ELSE returns(None)

loadPromptFromDirectory(prompt) ==
    LET persona == loadPart(prompt.persona, "Persona", "persona", TRUE)
        instructions == loadPart(prompt.instructions, "Instructions", "instructions", TRUE)
        context == loadPart(prompt.context, "Context", "context", FALSE)
    IN  IF persona.threw THEN persona
        ELSE IF instructions.threw THEN instructions
        ELSE IF instructions.value = None THEN throws(InstructionsRequired)
        ELSE returns([persona |-> persona.value, instructions |-> instructions.value,
                      contexts |-> context.value])

LoadPrompt ==
    /\ lp.pc = "idle"
    /\ \E prompt \in PromptDirectories, via \in {"cli", "process", "execute"} :
          lp' = [pc |-> "done", via |-> via, directory |-> prompt,
                 promise |-> loadPromptFromDirectory(prompt)]
    /\ UNCHANGED <<ld, an, ge, oa, sc, pa, se, pm, mr, lg, mt, cr, pf>>

\* the caller goes on with the Prompt, or reports the error
LoadPromptSettled ==
    /\ lp.pc = "done"
    /\ lp' = Idle
    /\ UNCHANGED <<ld, an, ge, oa, sc, pa, se, pm, mr, lg, mt, cr, pf>>

InitLoadPrompt ==
    /\ lp = Idle
    /\ CoreIdle
    /\ pm = Idle /\ mr = Idle /\ lg = Idle /\ mt = Idle /\ cr = Idle /\ pf = Idle

NextLoadPrompt == LoadPrompt \/ LoadPromptSettled

SpecLoadPrompt == InitLoadPrompt /\ [][NextLoadPrompt]_vars

(***************************************************************************)
(* Claims about loadPromptFromDirectory.                                   *)
(***************************************************************************)
\* the directory of the part is there and the Loader gets a Section from it
Loadable(part) == part.dir # None /\ part.dir[1].fail = "none"

\* nothing at persona and context that could be read wrongly
OptionalPartsFine(prompt) == prompt.persona.file # "unreadable"

\* C29: loadPromptFromDirectory fails with 'instructions (directory or .md
\* file) is required.' only when the prompt directory offers neither a
\* loadable instructions/ directory nor an instructions.md file; whenever
\* instructions.md exists the call returns a Prompt with an Instructions
\* section; the absence of persona and context never makes it fail.
C29_InstructionsFromDirectoryOrFile ==
    lp.pc = "done" =>
       LET prompt == lp.directory
           instructions == prompt.instructions
       IN  /\ (lp.promise.threw /\ lp.promise.value = InstructionsRequired) =>
                 (~Loadable(instructions) /\ instructions.file = "absent")
           /\ (instructions.file = "file" /\ OptionalPartsFine(prompt)) =>
                 /\ ~lp.promise.threw
                 /\ lp.promise.value.instructions # None
           /\ (prompt.persona = [dir |-> None, file |-> "absent"]
                 /\ prompt.context = [dir |-> None, file |-> "absent"]
                 /\ (Loadable(instructions) \/ instructions.file = "file")) =>
                 ~lp.promise.threw

(***************************************************************************)
(* Claims about the Gemini schema transform and its input.                 *)
(***************************************************************************)
\* the transform applied to a schema that is given as a value
Transformed(schema) == afterMapSchema(schema).built

\* C30: the Gemini schema transform does not mutate its input: after
\* responseSchema is built, the request's schema and all its nested
\* properties and items objects are as before (types lowercase, $schema
\* and additionalProperties present), so the request can be sent to
\* another provider; the transform applied to its own output returns an
\* equal schema.
C30_InputNotMutated ==
    /\ sc.pc \in {"input", "mapped"} => sc.request = sc.schema
    /\ sc.pc = "mapped" =>
          /\ sc.built = sc.responseSchema
          /\ Transformed(sc.built) = sc.built

\* a nested schema was transformed: the request still holds the lowercase
\* types and the keys that the responseSchema lost
C30_Witness ==
    /\ sc.pc = "mapped"
    /\ DOMAIN sc.schema = {"type", "additionalProperties", "$schema", "items"}
    /\ DOMAIN sc.schema["items"] = {"type", "additionalProperties", "$schema", "properties", "required"}
    /\ sc.request["type"] = TypeStr("array")
    /\ sc.request["items"]["type"] = TypeStr("object")
    /\ "$schema" \in DOMAIN sc.request["items"]["properties"]["x"]
    /\ sc.built["type"] = TypeStr("ARRAY")
    /\ sc.built["items"]["type"] = TypeStr("OBJECT")
    /\ "$schema" \notin DOMAIN sc.built["items"]["properties"]["x"]

====
